---- MODULE Spec2Model ----
(***************************************************************************)
(* The macro-mode VU0 (COP2) instruction recompiler of                     *)
(* pcsx2/x86/microVU_Macro.inl.                                            *)
(*                                                                         *)
(* A translation routine emits straight-line host code whose only jumps    *)
(* are forward skips, so the host code of one guest instruction runs in    *)
(* the order it was emitted.  The model therefore walks each routine once, *)
(* statement by statement: a translation-time statement changes the        *)
(* translator state (microVU0, the log), an emitted host operation changes *)
(* the guest and host state it would change when the emitted code runs,    *)
(* and a run-time conditional skip (xTEST / xForwardJZ32) is decided on    *)
(* the run-time state at that point.  The log records, in order, the calls *)
(* made and the host operations run for the current guest instruction.     *)
(*                                                                         *)
(* Every 32-bit quantity is a pair <<hi, lo>> of 16-bit halves, so that    *)
(* the arithmetic is exact modulo 2^32.                                    *)
(***************************************************************************)
EXTENDS Integers, Sequences, FiniteSets, TLC

VARIABLES
  code,      \* cpuRegs.code: the guest instruction word under translation
  fn,        \* the routine control is in; "idle" between two instructions
  pc,        \* the position inside that routine
  cpuRegs,   \* main CPU: [cycle, GPR]
  vu0Regs,   \* VU0: [VI, VF, cycle, nextBlockCycles, micro_statusflags, micro_macflags]
  microVU0,  \* translator state of microVU0: [cop2, code, curPC, info]
  x86,       \* host registers the emitted code uses: [eax, gprF0, xmmPQ, xmmT1]
  log,       \* <<name, word>> events of the current instruction, in order
  retired,   \* number of guest instructions translated and run so far
  hist,      \* history of earlier instructions (what the claims refer back to)
  pxThread   \* a Threading::pxThread object, its worker and the threads calling it

vars == <<code, fn, pc, cpuRegs, vu0Regs, microVU0, x86, log, retired, hist, pxThread>>

----------------------------------------------------------------------------
(* 32-bit words *)

U32(n) == <<n \div 65536, n % 65536>>

ToNat(w) == w[1] * 65536 + w[2]

Zero32 == <<0, 0>>

RECURSIVE BitAnd(_, _)
BitAnd(a, b) ==
  IF a = 0 \/ b = 0 THEN 0
  ELSE (a % 2) * (b % 2) + 2 * BitAnd(a \div 2, b \div 2)

AND32(a, b) == <<BitAnd(a[1], b[1]), BitAnd(a[2], b[2])>>

OR32(a, b) ==
  <<a[1] + b[1] - BitAnd(a[1], b[1]), a[2] + b[2] - BitAnd(a[2], b[2])>>

SHL32(a, n) ==
  IF n >= 16 THEN <<(a[2] * 2^(n - 16)) % 65536, 0>>
  ELSE <<(a[1] * 2^n + (a[2] * 2^n) \div 65536) % 65536, (a[2] * 2^n) % 65536>>

SHR32(a, n) ==
  IF n >= 16 THEN <<0, a[1] \div 2^(n - 16)>>
  ELSE <<a[1] \div 2^n, (a[2] \div 2^n) + (a[1] % 2^n) * 2^(16 - n)>>

ADD32(a, b) ==
  LET lo == a[2] + b[2]
  IN  <<(a[1] + b[1] + lo \div 65536) % 65536, lo % 65536>>

SUB32(a, b) ==
  LET borrow == IF a[2] < b[2] THEN 1 ELSE 0
  IN  <<(a[1] - b[1] - borrow + 65536) % 65536, (a[2] - b[2] + 65536) % 65536>>

\* the sign bit of a word read as a signed 32-bit integer
Neg32(a) == a[1] >= 32768

\* a slip: the jump after xCMP is on "below", the unsigned comparison
SLT32_unsigned(a, b) == a[1] < b[1] \/ (a[1] = b[1] /\ a[2] < b[2])

\* a < b, both read as signed 32-bit integers (xCMP then a jump on "less")
SLT32(a, b) ==
  IF Neg32(a) # Neg32(b) THEN Neg32(a)
  ELSE a[1] < b[1] \/ (a[1] = b[1] /\ a[2] < b[2])

\* xTEST: the bits of a selected by mask are not all zero
TEST32(a, mask) == AND32(a, mask) # Zero32

----------------------------------------------------------------------------
(* Fields of the guest instruction word *)

_Rs_(c) == ToNat(AND32(SHR32(c, 21), U32(\h1F)))
_Rt_(c) == ToNat(AND32(SHR32(c, 16), U32(\h1F)))
_Rd_(c) == ToNat(AND32(SHR32(c, 11), U32(\h1F)))
_Funct_(c) == ToNat(AND32(c, U32(\h3F)))

\* a COP2 instruction word: primary opcode 0x12, then rs, rt, rd and bits 10..0
CodeWord(rs, rt, rd, low) == <<18 * 1024 + rs * 32 + rt, rd * 2048 + low>>

----------------------------------------------------------------------------
(* VU control register numbers *)

REG_STATUS_FLAG == 16
REG_MAC_FLAG == 17
REG_CLIP_FLAG == 18
REG_R == 20
REG_I == 21
REG_Q == 22
REG_TPC == 26
REG_FBRST == 28
REG_VPU_STAT == 29
REG_CMSAR1 == 31

----------------------------------------------------------------------------
(* Dispatch tables *)

\* src/pcsx2/x86/microVU_Macro.inl:478-483   void (*recCOP2t[32])(void)
recCOP2t ==
  << "rec_C2UNK", "recQMFC2", "recCFC2", "rec_C2UNK",
     "rec_C2UNK", "recQMTC2", "recCTC2", "rec_C2UNK",
     "recCOP2_BC2", "rec_C2UNK", "rec_C2UNK", "rec_C2UNK",
     "rec_C2UNK", "rec_C2UNK", "rec_C2UNK", "rec_C2UNK",
     "recCOP2_SPEC1", "recCOP2_SPEC1", "recCOP2_SPEC1", "recCOP2_SPEC1",
     "recCOP2_SPEC1", "recCOP2_SPEC1", "recCOP2_SPEC1", "recCOP2_SPEC1",
     "recCOP2_SPEC1", "recCOP2_SPEC1", "recCOP2_SPEC1", "recCOP2_SPEC1",
     "recCOP2_SPEC1", "recCOP2_SPEC1", "recCOP2_SPEC1", "recCOP2_SPEC1" >>

\* src/pcsx2/x86/microVU_Macro.inl:485-490   void (*recCOP2_BC2t[32])(void)
recCOP2_BC2t ==
  << "recBC2F", "recBC2T", "recBC2FL", "recBC2TL",
     "rec_C2UNK", "rec_C2UNK", "rec_C2UNK", "rec_C2UNK",
     "rec_C2UNK", "rec_C2UNK", "rec_C2UNK", "rec_C2UNK",
     "rec_C2UNK", "rec_C2UNK", "rec_C2UNK", "rec_C2UNK",
     "rec_C2UNK", "rec_C2UNK", "rec_C2UNK", "rec_C2UNK",
     "rec_C2UNK", "rec_C2UNK", "rec_C2UNK", "rec_C2UNK",
     "rec_C2UNK", "rec_C2UNK", "rec_C2UNK", "rec_C2UNK",
     "rec_C2UNK", "rec_C2UNK", "rec_C2UNK", "rec_C2UNK" >>

\* src/pcsx2/x86/microVU_Macro.inl:492-501   void (*recCOP2SPECIAL1t[64])(void)
recCOP2SPECIAL1t ==
  << "recVADDx", "recVADDy", "recVADDz", "recVADDw",
     "recVSUBx", "recVSUBy", "recVSUBz", "recVSUBw",
     "recVMADDx", "recVMADDy", "recVMADDz", "recVMADDw",
     "recVMSUBx", "recVMSUBy", "recVMSUBz", "recVMSUBw",
     "recVMAXx", "recVMAXy", "recVMAXz", "recVMAXw",
     "recVMINIx", "recVMINIy", "recVMINIz", "recVMINIw",
     "recVMULx", "recVMULy", "recVMULz", "recVMULw",
     "recVMULq", "recVMAXi", "recVMULi", "recVMINIi",
     "recVADDq", "recVMADDq", "recVADDi", "recVMADDi",
     "recVSUBq", "recVMSUBq", "recVSUBi", "recVMSUBi",
     "recVADD", "recVMADD", "recVMUL", "recVMAX",
     "recVSUB", "recVMSUB", "recVOPMSUB", "recVMINI",
     "recVIADD", "recVISUB", "recVIADDI", "rec_C2UNK",
     "recVIAND", "recVIOR", "rec_C2UNK", "rec_C2UNK",
     "recVCALLMS", "recVCALLMSR", "rec_C2UNK", "rec_C2UNK",
     "recCOP2_SPEC2", "recCOP2_SPEC2", "recCOP2_SPEC2", "recCOP2_SPEC2" >>

\* a slip: the last entry of the SPECIAL2 table names the SPECIAL1 dispatcher
recCOP2SPECIAL2t_cyclic ==
  [i \in 1..128 |-> IF i = 128 THEN "recCOP2_SPEC1" ELSE "rec_C2UNK"]

\* src/pcsx2/x86/microVU_Macro.inl:503-520   void (*recCOP2SPECIAL2t[128])(void)
recCOP2SPECIAL2t ==
  << "recVADDAx", "recVADDAy", "recVADDAz", "recVADDAw",
     "recVSUBAx", "recVSUBAy", "recVSUBAz", "recVSUBAw",
     "recVMADDAx", "recVMADDAy", "recVMADDAz", "recVMADDAw",
     "recVMSUBAx", "recVMSUBAy", "recVMSUBAz", "recVMSUBAw",
     "recVITOF0", "recVITOF4", "recVITOF12", "recVITOF15",
     "recVFTOI0", "recVFTOI4", "recVFTOI12", "recVFTOI15",
     "recVMULAx", "recVMULAy", "recVMULAz", "recVMULAw",
     "recVMULAq", "recVABS", "recVMULAi", "recVCLIP",
     "recVADDAq", "recVMADDAq", "recVADDAi", "recVMADDAi",
     "recVSUBAq", "recVMSUBAq", "recVSUBAi", "recVMSUBAi",
     "recVADDA", "recVMADDA", "recVMULA", "rec_C2UNK",
     "recVSUBA", "recVMSUBA", "recVOPMULA", "recVNOP",
     "recVMOVE", "recVMR32", "rec_C2UNK", "rec_C2UNK",
     "recVLQI", "recVSQI", "recVLQD", "recVSQD",
     "recVDIV", "recVSQRT", "recVRSQRT", "recVWAITQ",
     "recVMTIR", "recVMFIR", "recVILWR", "recVISWR",
     "recVRNEXT", "recVRGET", "recVRINIT", "recVRXOR",
     "rec_C2UNK", "rec_C2UNK", "rec_C2UNK", "rec_C2UNK",
     "rec_C2UNK", "rec_C2UNK", "rec_C2UNK", "rec_C2UNK",
     "rec_C2UNK", "rec_C2UNK", "rec_C2UNK", "rec_C2UNK",
     "rec_C2UNK", "rec_C2UNK", "rec_C2UNK", "rec_C2UNK",
     "rec_C2UNK", "rec_C2UNK", "rec_C2UNK", "rec_C2UNK",
     "rec_C2UNK", "rec_C2UNK", "rec_C2UNK", "rec_C2UNK",
     "rec_C2UNK", "rec_C2UNK", "rec_C2UNK", "rec_C2UNK",
     "rec_C2UNK", "rec_C2UNK", "rec_C2UNK", "rec_C2UNK",
     "rec_C2UNK", "rec_C2UNK", "rec_C2UNK", "rec_C2UNK",
     "rec_C2UNK", "rec_C2UNK", "rec_C2UNK", "rec_C2UNK",
     "rec_C2UNK", "rec_C2UNK", "rec_C2UNK", "rec_C2UNK",
     "rec_C2UNK", "rec_C2UNK", "rec_C2UNK", "rec_C2UNK",
     "rec_C2UNK", "rec_C2UNK", "rec_C2UNK", "rec_C2UNK",
     "rec_C2UNK", "rec_C2UNK", "rec_C2UNK", "rec_C2UNK",
     "rec_C2UNK", "rec_C2UNK", "rec_C2UNK", "rec_C2UNK" >>

\* src/pcsx2/x86/microVU_Macro.inl:110-230   REC_COP2_mVU0(f, opName, mode) defines recV##f
REC_COP2_mVU0_ops ==
  << <<"recVABS", 0>>, <<"recVITOF0", 0>>, <<"recVITOF4", 0>>, <<"recVITOF12", 0>>,
     <<"recVITOF15", 0>>, <<"recVFTOI0", 0>>, <<"recVFTOI4", 0>>, <<"recVFTOI12", 0>>,
     <<"recVFTOI15", 0>>, <<"recVADD", 16>>, <<"recVADDi", 16>>, <<"recVADDq", 17>>,
     <<"recVADDx", 16>>, <<"recVADDy", 16>>, <<"recVADDz", 16>>, <<"recVADDw", 16>>,
     <<"recVADDA", 16>>, <<"recVADDAi", 16>>, <<"recVADDAq", 17>>, <<"recVADDAx", 16>>,
     <<"recVADDAy", 16>>, <<"recVADDAz", 16>>, <<"recVADDAw", 16>>, <<"recVSUB", 16>>,
     <<"recVSUBi", 16>>, <<"recVSUBq", 17>>, <<"recVSUBx", 16>>, <<"recVSUBy", 16>>,
     <<"recVSUBz", 16>>, <<"recVSUBw", 16>>, <<"recVSUBA", 16>>, <<"recVSUBAi", 16>>,
     <<"recVSUBAq", 17>>, <<"recVSUBAx", 16>>, <<"recVSUBAy", 16>>, <<"recVSUBAz", 16>>,
     <<"recVSUBAw", 16>>, <<"recVMUL", 16>>, <<"recVMULi", 16>>, <<"recVMULq", 17>>,
     <<"recVMULx", 16>>, <<"recVMULy", 16>>, <<"recVMULz", 16>>, <<"recVMULw", 16>>,
     <<"recVMULA", 16>>, <<"recVMULAi", 16>>, <<"recVMULAq", 17>>, <<"recVMULAx", 16>>,
     <<"recVMULAy", 16>>, <<"recVMULAz", 16>>, <<"recVMULAw", 16>>, <<"recVMAX", 0>>,
     <<"recVMAXi", 0>>, <<"recVMAXx", 0>>, <<"recVMAXy", 0>>, <<"recVMAXz", 0>>,
     <<"recVMAXw", 0>>, <<"recVMINI", 0>>, <<"recVMINIi", 0>>, <<"recVMINIx", 0>>,
     <<"recVMINIy", 0>>, <<"recVMINIz", 0>>, <<"recVMINIw", 0>>, <<"recVMADD", 16>>,
     <<"recVMADDi", 16>>, <<"recVMADDq", 17>>, <<"recVMADDx", 16>>, <<"recVMADDy", 16>>,
     <<"recVMADDz", 16>>, <<"recVMADDw", 16>>, <<"recVMADDA", 16>>, <<"recVMADDAi", 16>>,
     <<"recVMADDAq", 17>>, <<"recVMADDAx", 16>>, <<"recVMADDAy", 16>>, <<"recVMADDAz", 16>>,
     <<"recVMADDAw", 16>>, <<"recVMSUB", 16>>, <<"recVMSUBi", 16>>, <<"recVMSUBq", 17>>,
     <<"recVMSUBx", 16>>, <<"recVMSUBy", 16>>, <<"recVMSUBz", 16>>, <<"recVMSUBw", 16>>,
     <<"recVMSUBA", 16>>, <<"recVMSUBAi", 16>>, <<"recVMSUBAq", 17>>, <<"recVMSUBAx", 16>>,
     <<"recVMSUBAy", 16>>, <<"recVMSUBAz", 16>>, <<"recVMSUBAw", 16>>, <<"recVOPMULA", 16>>,
     <<"recVOPMSUB", 16>>, <<"recVCLIP", 8>>, <<"recVDIV", 18>>, <<"recVSQRT", 18>>,
     <<"recVRSQRT", 18>>, <<"recVIADD", 4>>, <<"recVIADDI", 4>>, <<"recVIAND", 4>>,
     <<"recVIOR", 4>>, <<"recVISUB", 4>>, <<"recVILWR", 4>>, <<"recVISWR", 0>>,
     <<"recVLQI", 4>>, <<"recVLQD", 4>>, <<"recVSQI", 0>>, <<"recVSQD", 0>>,
     <<"recVMFIR", 4>>, <<"recVMTIR", 4>>, <<"recVMOVE", 0>>, <<"recVMR32", 0>>,
     <<"recVRINIT", 0>>, <<"recVRGET", 4>>, <<"recVRNEXT", 4>>, <<"recVRXOR", 0>> >>

\* declared sizes of the four tables
recCOP2t_size == 32
recCOP2_BC2t_size == 32
recCOP2SPECIAL1t_size == 64
recCOP2SPECIAL2t_size == 128

\* t[i] of a C array declared with `size` entries and initialised by the list t:
\* entries the initialiser list does not reach are null pointers, and an index
\* outside the array reads no entry of it at all
TableAt(t, size, i) ==
  IF i >= size THEN "out_of_bounds"
  ELSE IF i >= Len(t) THEN "null"
  ELSE t[i + 1]

\* the routines REC_COP2_mVU0 generates, and the mode each was generated with
EnvelopeOps == {p[1] : p \in {REC_COP2_mVU0_ops[i] : i \in DOMAIN REC_COP2_mVU0_ops}}

\* a slip: CLIP is generated with the dual-issue bit as well (0x0C)
ModeOf_clipDual(f) ==
  IF f = "recVCLIP" THEN 12
  ELSE (CHOOSE p \in {REC_COP2_mVU0_ops[i] : i \in DOMAIN REC_COP2_mVU0_ops} : p[1] = f)[2]

ModeOf(f) ==
  (CHOOSE p \in {REC_COP2_mVU0_ops[i] : i \in DOMAIN REC_COP2_mVU0_ops} : p[1] = f)[2]

Dispatchers == {"recCOP2", "recCOP2_BC2", "recCOP2_SPEC1", "recCOP2_SPEC2"}

Transfers == {"recCFC2", "recCTC2", "recQMFC2", "recQMTC2"}

Branches == {"recBC2F", "recBC2T", "recBC2FL", "recBC2TL"}

\* every translation routine the file defines
Routines ==
  Dispatchers \cup Transfers \cup Branches \cup EnvelopeOps
    \cup {"rec_C2UNK", "recVNOP", "recVWAITQ", "recVCALLMS", "recVCALLMSR"}

\* recCOP2SPECIAL2t[(cpuRegs.code&3)|((cpuRegs.code>>4)&0x7c)]
SPEC2_index_wide(c) ==
  ToNat(OR32(AND32(c, U32(3)), AND32(SHR32(c, 4), U32(\hFC))))

SPEC2_index(c) ==
  ToNat(OR32(AND32(c, U32(3)), AND32(SHR32(c, 4), U32(\h7C))))

----------------------------------------------------------------------------
(* State *)

Event(name, w) == <<name, w>>

Vec4(w) == <<w, w, w, w>>

InfoZero ==
  [ cFlag |-> [write |-> 0, lastWrite |-> 0],
    sFlag |-> [doFlag |-> FALSE, doNonSticky |-> FALSE, write |-> 0, lastWrite |-> 0],
    mFlag |-> [doFlag |-> FALSE, write |-> 0],
    lOp   |-> [isNOP |-> FALSE] ]

NoValue == [has |-> FALSE, val |-> Zero32]

HistZero ==
  [ prevClip     |-> FALSE,    \* the instruction retired last was recVCLIP
    startStatus  |-> Zero32,   \* VI[REG_STATUS_FLAG] when the current instruction began
    prevStatus   |-> Zero32,   \* ... when the instruction retired last began
    prevClipFlag |-> Zero32,   \* VI[REG_CLIP_FLAG] when it began
    startClip    |-> Zero32,
    statusWrite  |-> NoValue,  \* scalar status the last instruction to store one stored
    qStore       |-> NoValue,  \* Q value the last endMacroOp stored
    qOther       |-> FALSE,    \* VI[REG_Q] was written by another routine since
    qSince       |-> 0,        \* instructions retired since that store
    vfMove       |-> [has |-> FALSE, rd |-> 0, val |-> Vec4(Zero32)] ]
                               \* the last QMTC2: its VF register, the value moved

\* the machine after a reset, with the VU0 busy bit and the cycle counters given
Machine(busy, cycle, vuCycle, nextBlock, gpr1) ==
  [ cpu |-> [ cycle |-> cycle,
              GPR   |-> [r \in 0..31 |-> IF r = 1 THEN gpr1 ELSE Vec4(Zero32)] ],
    vu  |-> [ VI    |-> [r \in 0..31 |->
                           IF r = REG_VPU_STAT /\ busy THEN U32(1) ELSE Zero32],
              VF    |-> [r \in 0..31 |-> Vec4(Zero32)],
              cycle |-> vuCycle,
              nextBlockCycles   |-> nextBlock,
              micro_statusflags |-> Vec4(Zero32),
              micro_macflags    |-> Vec4(Zero32) ],
    mvu |-> [ cop2 |-> 0, code |-> Zero32, curPC |-> 0, info |-> InfoZero ],
    x86 |-> [ eax |-> Zero32, gprF0 |-> Zero32, xmmPQ |-> Zero32,
              xmmT1 |-> Vec4(Zero32) ],
    log |-> << >> ]

\* the machine the variables hold, and the variables set from a machine
Cur == [cpu |-> cpuRegs, vu |-> vu0Regs, mvu |-> microVU0, x86 |-> x86, log |-> log]

Becomes(m) ==
  /\ cpuRegs' = m.cpu
  /\ vu0Regs' = m.vu
  /\ microVU0' = m.mvu
  /\ x86' = m.x86
  /\ log' = m.log

Ev(m, name, w) == [m EXCEPT !.log = Append(@, Event(name, w))]

Busy(m) == TEST32(m.vu.VI[REG_VPU_STAT], U32(1))

\* the threads that call into the object: the one that owns it, and two more
Callers == {"owner", "d1", "d2"}

\* pxThread::pxThread: m_detached(true), m_running(false); no worker yet. The
\* fields without the m_ prefix are the positions of the threads and counts of
\* what happened since the worker last set m_detached to false (an epoch).
pxThread_ctor ==
  [ m_running      |-> FALSE,
    m_detached     |-> TRUE,
    m_mtx_InThread |-> "free",      \* or "worker", the only thread that acquires it
    m_sem_startup  |-> 0,
    worker         |-> "none",      \* position of the worker thread
    owner          |-> "idle",      \* position of the owning thread
    detach         |-> [c \in Callers |-> "none"],   \* position inside Detach()
    callEpoch      |-> [c \in Callers |-> 0],        \* epoch in which the call began
    alive          |-> TRUE,        \* the destructor has not completed
    starts         |-> 0,           \* pthread_create calls
    epoch          |-> 0,
    calls          |-> 0,           \* Detach() calls of d1 and d2
    returnedTrue   |-> 0,           \* Detach() calls of this epoch that returned true
    returnedFalse  |-> 0,
    pthread_detach |-> 0 ]          \* pthread_detach calls made by them

InitWith(m) ==
  /\ pxThread = pxThread_ctor
  /\ code = Zero32
  /\ fn = "idle"
  /\ pc = "entry"
  /\ cpuRegs = m.cpu
  /\ vu0Regs = m.vu
  /\ microVU0 = m.mvu
  /\ x86 = m.x86
  /\ log = m.log
  /\ retired = 0
  /\ hist = HistZero

----------------------------------------------------------------------------
(* Fetch and dispatch *)

\* number of guest instructions one run translates
MaxInstr == 3

\* the R5900 dispatcher hands the next COP2 instruction word to recCOP2
Fetch(words, max) ==
  /\ fn = "idle"
  /\ retired < max
  /\ \E w \in words : code' = w
  /\ fn' = "recCOP2"
  /\ pc' = "entry"
  /\ log' = << >>
  /\ hist' = [hist EXCEPT !.startStatus = vu0Regs.VI[REG_STATUS_FLAG],
                          !.startClip = vu0Regs.VI[REG_CLIP_FLAG]]
  /\ UNCHANGED <<cpuRegs, vu0Regs, microVU0, x86, retired>>
  /\ UNCHANGED pxThread

\* what the host registers may hold when the next COP2 instruction begins: the
\* code between two COP2 instructions uses them freely
Junk == {<<\hDEAD, \hBEEF>>}

\* a routine has returned to the R5900 dispatcher; the log of the instruction
\* is dropped
Ret ==
  /\ fn \in Routines
  /\ pc = "ret"
  /\ fn' = "idle"
  /\ pc' = "entry"
  /\ retired' = retired + 1
  /\ code' = Zero32
  /\ log' = << >>
  /\ hist' = [hist EXCEPT !.prevClip = (fn = "recVCLIP"),
                          !.qSince = IF hist.qStore.has /\ @ < MaxInstr THEN @ + 1 ELSE @,
                          !.prevStatus = hist.startStatus,
                          !.prevClipFlag = hist.startClip]
  /\ \E j \in Junk : x86' = [eax |-> j, gprF0 |-> j, xmmPQ |-> j, xmmT1 |-> Vec4(j)]
  /\ UNCHANGED <<cpuRegs, vu0Regs, microVU0>>
  /\ UNCHANGED pxThread

\* an indirect call through a table entry
CallThrough(t, size, i) ==
  /\ fn' = TableAt(t, size, i)
  /\ pc' = "entry"

\* void recCOP2() { recCOP2t[_Rs_](); }
recCOP2 ==
  /\ fn = "recCOP2"
  /\ CallThrough(recCOP2t, recCOP2t_size, _Rs_(code))
  /\ log' = Append(log, Event("recCOP2t", U32(_Rs_(code))))
  /\ UNCHANGED <<code, cpuRegs, vu0Regs, microVU0, x86, retired, hist>>
  /\ UNCHANGED pxThread

\* static void recCOP2_BC2(void) { recCOP2_BC2t[_Rt_](); }
recCOP2_BC2 ==
  /\ fn = "recCOP2_BC2"
  /\ CallThrough(recCOP2_BC2t, recCOP2_BC2t_size, _Rt_(code))
  /\ log' = Append(log, Event("recCOP2_BC2t", U32(_Rt_(code))))
  /\ UNCHANGED <<code, cpuRegs, vu0Regs, microVU0, x86, retired, hist>>
  /\ UNCHANGED pxThread

----------------------------------------------------------------------------
(* Collaborators outside this file: the micro-mode engine *)

SetBusy(m, b) ==
  [m EXCEPT !.vu.VI[REG_VPU_STAT] =
     IF b THEN OR32(@, U32(1)) ELSE AND32(@, <<\hFFFF, \hFFFE>>)]

\* runs the VU0 microprogram until it ends
_vu0FinishMicro(m) == SetBusy(Ev(m, "_vu0FinishMicro", Zero32), FALSE)

\* waits until the VU0 microprogram in flight has completed
_vu0WaitMicro(m) == SetBusy(Ev(m, "_vu0WaitMicro", Zero32), FALSE)

\* runs VU0 for the cycles the main CPU is ahead of it; the microprogram may or
\* may not end within them (ends)
ExecuteBlockJIT(m, ends) ==
  LET m1 == Ev(m, "ExecuteBlockJIT", Zero32)
      delta == SUB32(m1.cpu.cycle, m1.vu.cycle)
  IN  IF Busy(m1) /\ ~Neg32(delta) /\ delta # Zero32
      THEN SetBusy([m1 EXCEPT !.vu.cycle = m1.cpu.cycle], ~ends)
      ELSE m1

\* iFlushCall(FLUSH_EVERYTHING): the main-CPU recompiler writes back and frees
\* every host register it holds
iFlushCall(m) == Ev(m, "iFlushCall", Zero32)

----------------------------------------------------------------------------
(* Second-level dispatch *)

\* a slip: the flush is emitted but the busy test and the call are not
SPEC1_prologue_noTest(m) == iFlushCall(m)

\* recCOP2_SPEC1: finish a running VU0 microprogram, then dispatch on _Funct_
SPEC1_prologue(m) ==
  LET m1 == iFlushCall(m)
      m2 == Ev(m1, "xTEST_VPU_STAT", IF Busy(m1) THEN U32(1) ELSE Zero32)
  IN  IF Busy(m2) THEN _vu0FinishMicro(m2) ELSE m2

recCOP2_SPEC1 ==
  /\ fn = "recCOP2_SPEC1"
  /\ CallThrough(recCOP2SPECIAL1t, recCOP2SPECIAL1t_size, _Funct_(code))
  /\ Becomes(Ev(SPEC1_prologue(Cur), "recCOP2SPECIAL1t", U32(_Funct_(code))))
  /\ UNCHANGED <<code, retired, hist>>
  /\ UNCHANGED pxThread

\* static void recCOP2_SPEC2(void) { recCOP2SPECIAL2t[...](); }
recCOP2_SPEC2 ==
  /\ fn = "recCOP2_SPEC2"
  /\ CallThrough(recCOP2SPECIAL2t, recCOP2SPECIAL2t_size, SPEC2_index(code))
  /\ log' = Append(log, Event("recCOP2SPECIAL2t", U32(SPEC2_index(code))))
  /\ UNCHANGED <<code, cpuRegs, vu0Regs, microVU0, x86, retired, hist>>
  /\ UNCHANGED pxThread

----------------------------------------------------------------------------
(* Status flag forms (microVU_Alloc.inl) *)

\* mVUallocSFLAGd: the denormalized form of the scalar status word s, as the
\* microVU flag registers hold it
Denormalize(s) ==
  LET t0 == AND32(SHR32(s, 3), U32(\h18))
      t1 == AND32(SHL32(s, 11), U32(\h1800))
      t2 == AND32(SHL32(s, 14), <<\h03CF, 0>>)
  IN  OR32(OR32(t0, t1), t2)

\* setBitSFLAG: set bitSet in reg when regT has a bit of bitTest
setBitSFLAG(reg, regT, bitTest, bitSet) ==
  IF TEST32(regT, bitTest) THEN OR32(reg, bitSet) ELSE reg

\* mVUallocSFLAGc: the scalar (normalized) status word of the flag register f
Normalize(f) ==
  LET r1 == setBitSFLAG(Zero32, f, U32(\h0F00), U32(\h0001))
      r2 == setBitSFLAG(r1, f, U32(\hF000), U32(\h0002))
      r3 == setBitSFLAG(r2, f, U32(\h000F), U32(\h0040))
      r4 == setBitSFLAG(r3, f, U32(\h00F0), U32(\h0080))
  IN  OR32(r4, SHR32(AND32(f, <<\hFFFF, 0>>), 14))

\* mVUallocSFLAGd(&vu0Regs.VI[REG_STATUS_FLAG].UL): result in eax
mVUallocSFLAGd(m) ==
  [Ev(m, "mVUallocSFLAGd", m.vu.VI[REG_STATUS_FLAG])
     EXCEPT !.x86.eax = Denormalize(m.vu.VI[REG_STATUS_FLAG])]

\* mVUallocSFLAGc(eax, gprF0, 0): result in eax, gprF0 used as scratch
mVUallocSFLAGc(m) ==
  [Ev(m, "mVUallocSFLAGc", m.x86.gprF0)
     EXCEPT !.x86.eax = Normalize(m.x86.gprF0),
            !.x86.gprF0 = SHR32(AND32(m.x86.gprF0, <<\hFFFF, 0>>), 14)]

\* xMOVDZX(xmm, x): x in lane 0, the other lanes zero
xMOVDZX(x) == <<x, Zero32, Zero32, Zero32>>

\* xSHUF.PS(xmm, xmm, 0): lane 0 in every lane
xSHUF_PS_0(v) == <<v[1], v[1], v[1], v[1]>>

----------------------------------------------------------------------------
(* The per-instruction envelope *)

HasMode(mode, bit) == BitAnd(mode, bit) # 0

\* a slip: the register allocator is reset ahead of the flush
setupMacroOp_Reset_resetFirst(m, c) ==
  LET m1 == [Ev(m, "microVU0_cop2", U32(1))
               EXCEPT !.mvu.cop2 = 1, !.mvu.curPC = 0, !.mvu.code = c]
      m2 == [Ev(m1, "memset_info", Zero32) EXCEPT !.mvu.info = InfoZero]
  IN  iFlushCall(Ev(m2, "regAlloc_reset", Zero32))

\* setupMacroOp, lines 31-36
setupMacroOp_Reset(m, c) ==
  LET m1 == [Ev(m, "microVU0_cop2", U32(1))
               EXCEPT !.mvu.cop2 = 1, !.mvu.curPC = 0, !.mvu.code = c]
      m2 == [Ev(m1, "memset_info", Zero32) EXCEPT !.mvu.info = InfoZero]
  IN  Ev(iFlushCall(m2), "regAlloc_reset", Zero32)

\* a slip: the load is put under the bit of the Q write (0x02)
setupMacroOp_Q_wrongBit(m, mode) ==
  IF HasMode(mode, 2)
  THEN [Ev(m, "xMOVSSZX_xmmPQ", m.vu.VI[REG_Q]) EXCEPT !.x86.xmmPQ = m.vu.VI[REG_Q]]
  ELSE m

\* if (mode & 0x01): Q-Reg will be Read
setupMacroOp_Q(m, mode) ==
  IF HasMode(mode, 1)
  THEN [Ev(m, "xMOVSSZX_xmmPQ", m.vu.VI[REG_Q]) EXCEPT !.x86.xmmPQ = m.vu.VI[REG_Q]]
  ELSE m

\* if (mode & 0x08): Clip Instruction
setupMacroOp_Clip(m, mode) ==
  IF HasMode(mode, 8)
  THEN [m EXCEPT !.mvu.info.cFlag = [write |-> 255, lastWrite |-> 255]]
  ELSE m

\* a slip: the status snapshot is written back to the scalar status register
setupMacroOp_Flags_storesSnapshot(m, mode) ==
  IF HasMode(mode, 16)
  THEN LET m1 == mVUallocSFLAGd(m)
       IN  [Ev(m1, "xMOV_status", m1.x86.eax)
              EXCEPT !.x86.gprF0 = m1.x86.eax,
                     !.vu.VI[REG_STATUS_FLAG] = m1.x86.eax]
  ELSE m

\* if (mode & 0x10): Update Status/Mac Flags
setupMacroOp_Flags(m, mode) ==
  IF HasMode(mode, 16)
  THEN LET m1 == [m EXCEPT
                    !.mvu.info.sFlag = [doFlag |-> TRUE, doNonSticky |-> TRUE,
                                        write |-> 0, lastWrite |-> 0],
                    !.mvu.info.mFlag = [doFlag |-> TRUE, write |-> 255]]
           m2 == mVUallocSFLAGd(m1)
       IN  [Ev(m2, "xMOV_gprF0", m2.x86.eax) EXCEPT !.x86.gprF0 = m2.x86.eax]
  ELSE m

setupMacroOp(m, mode, c) ==
  setupMacroOp_Flags(
    setupMacroOp_Clip(
      setupMacroOp_Q(
        setupMacroOp_Reset(Ev(m, "setupMacroOp", U32(mode)), c), mode), mode), mode)

\* a slip: the Q register is stored whatever the mode
endMacroOp_Q_always(m, mode) ==
  [Ev(m, "xMOVSS_Q", m.x86.xmmPQ) EXCEPT !.vu.VI[REG_Q] = m.x86.xmmPQ]

\* if (mode & 0x02): Q-Reg was Written To
endMacroOp_Q(m, mode) ==
  IF HasMode(mode, 2)
  THEN [Ev(m, "xMOVSS_Q", m.x86.xmmPQ) EXCEPT !.vu.VI[REG_Q] = m.x86.xmmPQ]
  ELSE m

\* if (mode & 0x10): normalize and commit the scalar status
endMacroOp_Commit(m, mode) ==
  IF HasMode(mode, 16)
  THEN LET m1 == mVUallocSFLAGc(m)
       IN  [Ev(m1, "xMOV_status", m1.x86.eax)
              EXCEPT !.vu.VI[REG_STATUS_FLAG] = m1.x86.eax]
  ELSE m

\* a slip: the xSHUF.PS that copies lane 0 into the other lanes is left out
endMacroOp_Rebroadcast_noShuffle(m, mode) ==
  IF HasMode(mode, 16)
  THEN LET m1 == mVUallocSFLAGd(m)
           m2 == [Ev(m1, "xMOVAPS_micro_statusflags", m1.x86.eax)
                    EXCEPT !.x86.xmmT1 = xMOVDZX(m1.x86.eax),
                           !.vu.micro_statusflags = xMOVDZX(m1.x86.eax)]
           mac == xMOVDZX(m2.vu.VI[REG_MAC_FLAG])
       IN  [Ev(m2, "xMOVAPS_micro_macflags", m2.vu.VI[REG_MAC_FLAG])
              EXCEPT !.x86.xmmT1 = mac, !.vu.micro_macflags = mac]
  ELSE m

\* if (mode & 0x10): update the VU0 status/mac instances after the flush
endMacroOp_Rebroadcast(m, mode) ==
  IF HasMode(mode, 16)
  THEN LET m1 == mVUallocSFLAGd(m)
           st == xSHUF_PS_0(xMOVDZX(m1.x86.eax))
           m2 == [Ev(m1, "xMOVAPS_micro_statusflags", m1.x86.eax)
                    EXCEPT !.x86.xmmT1 = st, !.vu.micro_statusflags = st]
           mac == xSHUF_PS_0(xMOVDZX(m2.vu.VI[REG_MAC_FLAG]))
       IN  [Ev(m2, "xMOVAPS_micro_macflags", m2.vu.VI[REG_MAC_FLAG])
              EXCEPT !.x86.xmmT1 = mac, !.vu.micro_macflags = mac]
  ELSE m

\* a slip: microVU0.cop2 is left set
endMacroOp_keepsMarker(m, mode) ==
  LET m1 == endMacroOp_Commit(endMacroOp_Q(Ev(m, "endMacroOp", U32(mode)), mode), mode)
      m2 == Ev(m1, "regAlloc_flushAll", Zero32)
  IN  endMacroOp_Rebroadcast(m2, mode)

\* a slip: the vector-lane copies are refreshed ahead of the commit
endMacroOp_broadcastsFirst(m, mode) ==
  LET m1 == endMacroOp_Rebroadcast(endMacroOp_Q(Ev(m, "endMacroOp", U32(mode)), mode), mode)
      m2 == Ev(endMacroOp_Commit(m1, mode), "regAlloc_flushAll", Zero32)
  IN  [Ev(m2, "microVU0_cop2", Zero32) EXCEPT !.mvu.cop2 = 0]

\* static void endMacroOp(int mode)
endMacroOp(m, mode) ==
  LET m1 == endMacroOp_Commit(endMacroOp_Q(Ev(m, "endMacroOp", U32(mode)), mode), mode)
      m2 == Ev(m1, "regAlloc_flushAll", Zero32)
      m3 == endMacroOp_Rebroadcast(m2, mode)
  IN  [Ev(m3, "microVU0_cop2", Zero32) EXCEPT !.mvu.cop2 = 0]

(* The opcode bodies mVU_##f (microVU_Upper.inl, microVU_Lower.inl) *)

\* sign and zero bits of the four lanes of a result: (sign << 4) | zero
MacResults == {U32(0), U32(\h01), U32(\h90)}

\* results of a DIV, SQRT or RSQRT (1.0f and -2.0f)
QResults == {<<\h3F80, 0>>, <<\hC000, 0>>}

\* the six clip judgement bits of a CLIP
ClipResults == {U32(0), U32(\h2A)}

\* mVU_##f(microVU0, 0): the analysis pass; it decides lOp.isNOP
mVU_pass0(m, nop) ==
  [Ev(m, "mVU_f", U32(0)) EXCEPT !.mvu.info.lOp.isNOP = nop]

\* mVUupdateFlags: the status flag register and the mac flag of a result
mVUupdateFlags(m, mReg) ==
  [m EXCEPT !.x86.gprF0 =
              OR32(OR32(AND32(@, <<\hFFFC, \h00FF>>), mReg), SHL32(mReg, 8)),
            !.vu.VI[REG_MAC_FLAG] = mReg]

\* mVU_##f(microVU0, 1): the pass that emits the host code of the opcode
mVU_pass1(m, mode, mReg, q, clip) ==
  LET m1 == Ev(m, "mVU_f", U32(1))
      m2 == IF m1.mvu.info.sFlag.doFlag THEN mVUupdateFlags(m1, mReg) ELSE m1
      m3 == IF HasMode(mode, 2) THEN [m2 EXCEPT !.x86.xmmPQ = q] ELSE m2
  IN  IF m3.mvu.info.cFlag.write = 255
      THEN [m3 EXCEPT !.vu.VI[REG_CLIP_FLAG] =
              AND32(OR32(SHL32(@, 6), clip), <<\h00FF, \hFFFF>>)]
      ELSE m3

\* REC_COP2_mVU0: where recV##f goes after setupMacroOp
REC_COP2_mVU0_first(mode) == IF HasMode(mode, 4) THEN "pass0" ELSE "pass1"

\* a slip: the routine returns when the lower op is a NOP
REC_COP2_mVU0_second_returns(isNOP) == IF ~isNOP THEN "pass1" ELSE "ret"

\* a slip: the second call is made whatever lOp.isNOP says
REC_COP2_mVU0_second_always(isNOP) == "pass1"

\* REC_COP2_mVU0: where recV##f goes after mVU_##f(microVU0, 0)
REC_COP2_mVU0_second(isNOP) == IF ~isNOP THEN "pass1" ELSE "end"

recV_setup ==
  /\ fn \in EnvelopeOps
  /\ pc = "entry"
  /\ Becomes(setupMacroOp(Cur, ModeOf(fn), code))
  /\ pc' = REC_COP2_mVU0_first(ModeOf(fn))
  /\ UNCHANGED <<code, fn, retired, hist>>
  /\ UNCHANGED pxThread

recV_pass0 ==
  /\ fn \in EnvelopeOps
  /\ pc = "pass0"
  /\ \E nop \in BOOLEAN :
       /\ Becomes(mVU_pass0(Cur, nop))
       /\ pc' = REC_COP2_mVU0_second(nop)
  /\ UNCHANGED <<code, fn, retired, hist>>
  /\ UNCHANGED pxThread

recV_pass1 ==
  /\ fn \in EnvelopeOps
  /\ pc = "pass1"
  /\ \E mReg \in (IF HasMode(ModeOf(fn), 16) THEN MacResults ELSE {Zero32}),
        q \in (IF HasMode(ModeOf(fn), 2) THEN QResults ELSE {Zero32}),
        clip \in (IF HasMode(ModeOf(fn), 8) THEN ClipResults ELSE {Zero32}) :
       Becomes(mVU_pass1(Cur, ModeOf(fn), mReg, q, clip))
  /\ pc' = "end"
  /\ UNCHANGED <<code, fn, retired, hist>>
  /\ UNCHANGED pxThread

recV_end ==
  /\ fn \in EnvelopeOps
  /\ pc = "end"
  /\ Becomes(endMacroOp(Cur, ModeOf(fn)))
  /\ pc' = "ret"
  /\ hist' = [hist EXCEPT
       !.statusWrite = IF HasMode(ModeOf(fn), 16)
                       THEN [has |-> TRUE, val |-> vu0Regs'.VI[REG_STATUS_FLAG]] ELSE @,
       !.qStore = IF HasMode(ModeOf(fn), 2)
                  THEN [has |-> TRUE, val |-> vu0Regs'.VI[REG_Q]] ELSE @,
       !.qOther = IF HasMode(ModeOf(fn), 2) THEN FALSE ELSE @,
       !.qSince = IF HasMode(ModeOf(fn), 2) THEN 0 ELSE @]
  /\ UNCHANGED <<code, fn, retired>>
  /\ UNCHANGED pxThread

----------------------------------------------------------------------------
(* COP2 transfer instructions *)

\* the interlock bit of the instruction word (cpuRegs.code & 1)
Interlocked(c) == TEST32(c, U32(1))

\* xMOV(eax, cycle); xADD(eax, scaleblockcycles_clear()); xMOV(cycle, eax)
UpdateCycles(m, est) ==
  LET sum == ADD32(m.cpu.cycle, est)
  IN  [Ev(m, "xMOV_cpuRegs_cycle", sum) EXCEPT !.cpu.cycle = sum, !.x86.eax = sum]

\* a slip: the two calls of the M-bit choice are exchanged
COP2_Interlock_swapped(m, mBitSync, est, ends) ==
  LET m1 == iFlushCall(Ev(m, "COP2_Interlock", IF mBitSync THEN U32(1) ELSE Zero32))
      m2 == Ev(m1, "xTEST_VPU_STAT", IF Busy(m1) THEN U32(1) ELSE Zero32)
      m3 == ExecuteBlockJIT(UpdateCycles(m2, est), ends)
  IN  IF ~Busy(m2) THEN m2
      ELSE IF mBitSync THEN _vu0FinishMicro(m3) ELSE _vu0WaitMicro(m3)

\* a slip: the jump over the busy path (skipvuidle) is missing
COP2_Interlock_noSkip(m, mBitSync, est, ends) ==
  LET m1 == iFlushCall(Ev(m, "COP2_Interlock", IF mBitSync THEN U32(1) ELSE Zero32))
      m2 == Ev(m1, "xTEST_VPU_STAT", IF Busy(m1) THEN U32(1) ELSE Zero32)
      m3 == ExecuteBlockJIT(UpdateCycles(m2, est), ends)
  IN  IF mBitSync THEN _vu0WaitMicro(m3) ELSE _vu0FinishMicro(m3)

\* a slip: the call that resolves the interlock is left out
COP2_Interlock_noResolve(m, mBitSync, est, ends) ==
  LET m1 == iFlushCall(Ev(m, "COP2_Interlock", IF mBitSync THEN U32(1) ELSE Zero32))
      m2 == Ev(m1, "xTEST_VPU_STAT", IF Busy(m1) THEN U32(1) ELSE Zero32)
  IN  IF ~Busy(m2) THEN m2
      ELSE ExecuteBlockJIT(UpdateCycles(m2, est), ends)

\* a slip: the M-bit choice is lost and both calls are emitted
COP2_Interlock_both(m, mBitSync, est, ends) ==
  LET m1 == iFlushCall(Ev(m, "COP2_Interlock", IF mBitSync THEN U32(1) ELSE Zero32))
      m2 == Ev(m1, "xTEST_VPU_STAT", IF Busy(m1) THEN U32(1) ELSE Zero32)
      m3 == ExecuteBlockJIT(UpdateCycles(m2, est), ends)
  IN  IF ~Busy(m2) THEN m2
      ELSE _vu0FinishMicro(_vu0WaitMicro(m3))

\* static void COP2_Interlock(bool mBitSync)
COP2_Interlock(m, mBitSync, est, ends) ==
  LET m1 == iFlushCall(Ev(m, "COP2_Interlock", IF mBitSync THEN U32(1) ELSE Zero32))
      m2 == Ev(m1, "xTEST_VPU_STAT", IF Busy(m1) THEN U32(1) ELSE Zero32)
      m3 == ExecuteBlockJIT(UpdateCycles(m2, est), ends)
  IN  IF ~Busy(m2) THEN m2
      ELSE IF mBitSync THEN _vu0WaitMicro(m3) ELSE _vu0FinishMicro(m3)

\* the threshold of xCMP(eax, 8)
SyncThreshold == 8

\* a slip: the cycle counter is updated ahead of the busy test
SyncCheck_updatesFirst(m, est, subNext) ==
  LET m1 == UpdateCycles(m, est)
      m2 == Ev(m1, "xTEST_VPU_STAT", IF Busy(m1) THEN U32(1) ELSE Zero32)
      d1 == SUB32(m1.x86.eax, m2.vu.cycle)
      d2 == IF subNext THEN SUB32(d1, m2.vu.nextBlockCycles) ELSE d1
  IN  IF ~Busy(m2) THEN m2
      ELSE [Ev(m2, "xCMP", d2) EXCEPT !.x86.eax = d2]

\* a slip: the skip is taken when VU0 is busy instead of when it is idle
SyncCheck_idle(m, est, subNext) ==
  LET m1 == Ev(m, "xTEST_VPU_STAT", IF Busy(m) THEN U32(1) ELSE Zero32)
      m2 == UpdateCycles(m1, est)
      d1 == SUB32(m2.x86.eax, m2.vu.cycle)
      d2 == IF subNext THEN SUB32(d1, m2.vu.nextBlockCycles) ELSE d1
  IN  IF Busy(m1) THEN m1
      ELSE [Ev(m2, "xCMP", d2) EXCEPT !.x86.eax = d2]

\* the block under if (!(cpuRegs.code & 1)), up to and including xCMP(eax, 8);
\* subNext: the block has the xSUB(eax, ptr32[&vu0Regs.nextBlockCycles])
SyncCheck(m, est, subNext) ==
  LET m1 == Ev(m, "xTEST_VPU_STAT", IF Busy(m) THEN U32(1) ELSE Zero32)
      m2 == UpdateCycles(m1, est)
      d1 == SUB32(m2.x86.eax, m2.vu.cycle)
      d2 == IF subNext THEN SUB32(d1, m2.vu.nextBlockCycles) ELSE d1
  IN  IF ~Busy(m1) THEN m1
      ELSE [Ev(m2, "xCMP", d2) EXCEPT !.x86.eax = d2]

\* the compare of the current instruction, if the emitted code ran one
Compared(l) == {i \in DOMAIN l : l[i][1] = "xCMP"}

\* xForwardJL32 skip: the ExecuteBlockJIT call runs unless eax < 8 (signed)
SyncTaken(l) == \E i \in Compared(l) : ~SLT32(l[i][2], U32(SyncThreshold))

\* which of the four routines has the xSUB of nextBlockCycles in its block
SubtractsNextBlock(f) == f \in {"recCFC2", "recCTC2", "recQMFC2"}

\* the M-bit argument each routine gives COP2_Interlock
MBitSync(f) == f \in {"recCTC2", "recQMTC2"}

\* a slip: the early return tests the source register of the move
TargetReg_swapped(f, c) == IF f \in {"recCFC2", "recQMFC2"} THEN _Rd_(c) ELSE _Rt_(c)

\* the register whose being zero makes the routine return at once:
\* _Rt_ for the moves from VU0, _Rd_ for the moves to VU0
TargetReg(f, c) == IF f \in {"recCFC2", "recQMFC2"} THEN _Rt_(c) ELSE _Rd_(c)

\* a slip: the sync check is emitted whatever the interlock bit is
Transfer_sync_both(m, f, c, est, ends) ==
  LET m1 == IF Interlocked(c) THEN COP2_Interlock(m, MBitSync(f), est, ends) ELSE m
      m2 == iFlushCall(m1)
  IN  IF TargetReg(f, c) = 0 THEN m1
      ELSE SyncCheck(m2, est, SubtractsNextBlock(f))

\* the routine up to the compare: interlock, early return, flush, sync check
Transfer_sync(m, f, c, est, ends) ==
  LET m1 == IF Interlocked(c) THEN COP2_Interlock(m, MBitSync(f), est, ends) ELSE m
      m2 == iFlushCall(m1)
  IN  IF TargetReg(f, c) = 0 THEN m1
      ELSE IF ~Interlocked(c) THEN SyncCheck(m2, est, SubtractsNextBlock(f))
      ELSE m2

\* a slip: the clip flag is merged into the status value read
CFC2_read_merged(m, rd) ==
  IF rd = REG_STATUS_FLAG
  THEN OR32(m.vu.VI[REG_STATUS_FLAG], m.vu.VI[REG_CLIP_FLAG])
  ELSE m.vu.VI[rd]

\* recCFC2, lines 309-312: the control register read into eax
CFC2_read(m, rd) ==
  IF rd = REG_STATUS_FLAG THEN m.vu.VI[REG_STATUS_FLAG] ELSE m.vu.VI[rd]

\* a slip: the sign extension is made for every control register
CFC2_body_signAlways(m, c) ==
  LET rt == _Rt_(c)
      rd == _Rd_(c)
      eax == CFC2_read(m, rd)
      edx == IF Neg32(eax) THEN <<\hFFFF, \hFFFF>> ELSE Zero32
      m1 == Ev(m, "read_VI", U32(rd))
      m2 == [Ev(m1, "write_GPR", U32(rt))
               EXCEPT !.x86.eax = eax,
                      !.cpu.GPR[rt][1] = eax,
                      !.cpu.GPR[rt][2] = edx]
  IN  Ev(m2, "_eeOnWriteReg", U32(rt))

\* recCFC2, lines 309-324
CFC2_body(m, c) ==
  LET rt == _Rt_(c)
      rd == _Rd_(c)
      eax == CFC2_read(m, rd)
      edx == IF Neg32(eax) THEN <<\hFFFF, \hFFFF>> ELSE Zero32
      m1 == Ev(m, "read_VI", U32(rd))
      m2 == [Ev(m1, "write_GPR", U32(rt))
               EXCEPT !.x86.eax = eax,
                      !.cpu.GPR[rt][1] = eax,
                      !.cpu.GPR[rt][2] = IF rd >= 16 THEN edx ELSE Zero32]
  IN  Ev(m2, "_eeOnWriteReg", U32(rt))

\* TEST_FBRST_RESET(resetFunct, vuIndex), eax holding GPR[rt].UL[0]
\* a slip: the two request bits are exchanged
TEST_FBRST_RESET_swapped(m, resetFunct, vuIndex, rt) ==
  IF TEST32(m.x86.eax, IF vuIndex = 1 THEN U32(\h002) ELSE U32(\h200))
  THEN [Ev(m, resetFunct, Zero32) EXCEPT !.x86.eax = m.cpu.GPR[rt][1]]
  ELSE m

TEST_FBRST_RESET(m, resetFunct, vuIndex, rt) ==
  IF TEST32(m.x86.eax, IF vuIndex = 1 THEN U32(\h200) ELSE U32(\h002))
  THEN [Ev(m, resetFunct, Zero32) EXCEPT !.x86.eax = m.cpu.GPR[rt][1]]
  ELSE m

\* a slip: the source is masked with 0xFFF, so it reaches bits 0..5 as well
CTC2_status_wideMask(m, rt) ==
  LET src == m.cpu.GPR[rt][1]
      m1 == IF rt # 0
            THEN [m EXCEPT !.x86.eax = AND32(src, U32(\hFFF)),
                    !.vu.VI[REG_STATUS_FLAG] =
                       OR32(AND32(@, U32(\h3F)), AND32(src, U32(\hFFF)))]
            ELSE [m EXCEPT !.vu.VI[REG_STATUS_FLAG] = AND32(@, U32(\h3F))]
      m2 == mVUallocSFLAGd(Ev(m1, "write_VI", U32(REG_STATUS_FLAG)))
      st == xSHUF_PS_0(xMOVDZX(m2.x86.eax))
  IN  [Ev(m2, "xMOVAPS_micro_statusflags", m2.x86.eax)
         EXCEPT !.x86.xmmT1 = st, !.vu.micro_statusflags = st]

\* a slip: the xSHUF.PS is left out and only lane 0 gets the new flags
CTC2_status_noShuffle(m, rt) ==
  LET src == m.cpu.GPR[rt][1]
      m1 == IF rt # 0
            THEN [m EXCEPT !.x86.eax = AND32(src, U32(\hFC0)),
                    !.vu.VI[REG_STATUS_FLAG] =
                       OR32(AND32(@, U32(\h3F)), AND32(src, U32(\hFC0)))]
            ELSE [m EXCEPT !.vu.VI[REG_STATUS_FLAG] = AND32(@, U32(\h3F))]
      m2 == mVUallocSFLAGd(Ev(m1, "write_VI", U32(REG_STATUS_FLAG)))
      st == xMOVDZX(m2.x86.eax)
  IN  [Ev(m2, "xMOVAPS_micro_statusflags", m2.x86.eax)
         EXCEPT !.x86.xmmT1 = st, !.vu.micro_statusflags = st]

\* recCTC2, case REG_STATUS_FLAG (lines 360-378): the source masked with 0xFC0
\* replaces bits 6..11 of the scalar status, then the denormalized status is
\* broadcast to micro_statusflags
CTC2_status(m, rt) ==
  LET src == m.cpu.GPR[rt][1]
      m1 == IF rt # 0
            THEN [m EXCEPT !.x86.eax = AND32(src, U32(\hFC0)),
                    !.vu.VI[REG_STATUS_FLAG] =
                       OR32(AND32(@, U32(\h3F)), AND32(src, U32(\hFC0)))]
            ELSE [m EXCEPT !.vu.VI[REG_STATUS_FLAG] = AND32(@, U32(\h3F))]
      m2 == mVUallocSFLAGd(Ev(m1, "write_VI", U32(REG_STATUS_FLAG)))
      st == xSHUF_PS_0(xMOVDZX(m2.x86.eax))
  IN  [Ev(m2, "xMOVAPS_micro_statusflags", m2.x86.eax)
         EXCEPT !.x86.xmmT1 = st, !.vu.micro_statusflags = st]

\* a slip: with rt = 0 there is nothing to dispatch and the case is skipped
CTC2_cmsar1_skipsZero(m, rt) ==
  IF rt = 0 THEN m
  ELSE Ev(Ev(m, "vu1Finish", U32(1)), "vu1ExecMicro", m.cpu.GPR[rt][1])

\* recCTC2, case REG_CMSAR1 (lines 379-387): vu1Finish(1), then vu1ExecMicro
\* of GPR[rt].UL[0], or of 0 when rt is 0
CTC2_cmsar1(m, rt) ==
  LET m1  == Ev(m, "vu1Finish", U32(1))
      ecx == IF rt # 0 THEN m1.cpu.GPR[rt][1] ELSE Zero32
  IN  Ev(m1, "vu1ExecMicro", ecx)

\* a slip: REG_MAC_FLAG is missing from the case labels
CTC2_readOnly_noMac(rd) == rd \in {REG_TPC, REG_VPU_STAT}

\* recCTC2, lines 352-353: case REG_MAC_FLAG: case REG_TPC: case REG_VPU_STAT:
\* break; // Read Only Regs
CTC2_readOnly(rd) == rd \in {REG_MAC_FLAG, REG_TPC, REG_VPU_STAT}

\* recCTC2, lines 351-406
\* a slip: the mask keeps bits 0..30
CTC2_R_wideMask(m, rt) ==
  LET v == OR32(AND32(m.cpu.GPR[rt][1], <<\h7FFF, \hFFFF>>), <<\h3F80, 0>>)
  IN  [Ev(m, "write_VI", U32(REG_R)) EXCEPT !.x86.eax = v, !.vu.VI[REG_R] = v]

\* recCTC2, case REG_R (lines 354-359)
CTC2_R(m, rt) ==
  LET v == OR32(AND32(m.cpu.GPR[rt][1], <<\h007F, \hFFFF>>), <<\h3F80, 0>>)
  IN  [Ev(m, "write_VI", U32(REG_R)) EXCEPT !.x86.eax = v, !.vu.VI[REG_R] = v]

CTC2_body(m, c) ==
  LET rt == _Rt_(c)
      rd == _Rd_(c)
      src == m.cpu.GPR[rt][1]
  IN  CASE CTC2_readOnly(rd) -> m
        [] rd = REG_R -> CTC2_R(m, rt)
        [] rd = REG_STATUS_FLAG -> CTC2_status(m, rt)
        [] rd = REG_CMSAR1 -> CTC2_cmsar1(m, rt)
        [] rd = REG_FBRST ->
             IF rt = 0
             THEN [Ev(m, "write_VI", U32(rd)) EXCEPT !.vu.VI[REG_FBRST] = Zero32]
             ELSE LET m1 == [m EXCEPT !.x86.eax = src]
                      m2 == TEST_FBRST_RESET(m1, "vu0ResetRegs", 0, rt)
                      m3 == TEST_FBRST_RESET(m2, "vu1ResetRegs", 1, rt)
                      v  == AND32(m3.x86.eax, U32(\h0C0C))
                  IN  [Ev(m3, "write_VI", U32(rd))
                         EXCEPT !.x86.eax = v, !.vu.VI[REG_FBRST] = v]
        [] OTHER ->
             IF rd # 0
             THEN [Ev(m, "write_VI", U32(rd)) EXCEPT !.vu.VI[rd] = src]
             ELSE m

\* recQMFC2, lines 433-437
\* a slip: the move is 64 bits wide
QMFC2_body_low64(m, c) ==
  LET rt == _Rt_(c)
      rd == _Rd_(c)
      v  == <<m.vu.VF[rd][1], m.vu.VF[rd][2], m.cpu.GPR[rt][3], m.cpu.GPR[rt][4]>>
      m1 == Ev(Ev(m, "_eeOnWriteReg", U32(rt)), "read_VF", U32(rd))
  IN  [Ev(m1, "write_GPR", U32(rt)) EXCEPT !.x86.xmmT1 = v, !.cpu.GPR[rt] = v]

QMFC2_body(m, c) ==
  LET rt == _Rt_(c)
      rd == _Rd_(c)
      m1 == Ev(Ev(m, "_eeOnWriteReg", U32(rt)), "read_VF", U32(rd))
  IN  [Ev(m1, "write_GPR", U32(rt))
         EXCEPT !.x86.xmmT1 = m.vu.VF[rd], !.cpu.GPR[rt] = m.vu.VF[rd]]

\* recQMTC2, lines 463-464
QMTC2_body(m, c) ==
  LET rt == _Rt_(c)
      rd == _Rd_(c)
      m1 == Ev(m, "read_GPR", U32(rt))
  IN  [Ev(m1, "write_VF", U32(rd))
         EXCEPT !.x86.xmmT1 = m.cpu.GPR[rt], !.vu.VF[rd] = m.cpu.GPR[rt]]

\* the routine after the compare: the ExecuteBlockJIT call it may make, then
\* the body
Transfer_rest(m, f, c, ends) ==
  LET m1 == IF SyncTaken(m.log) THEN ExecuteBlockJIT(m, ends) ELSE m
  IN  CASE f = "recCFC2" -> CFC2_body(m1, c)
        [] f = "recCTC2" -> CTC2_body(m1, c)
        [] f = "recQMFC2" -> QMFC2_body(m1, c)
        [] f = "recQMTC2" -> QMTC2_body(m1, c)

\* cycles of the block so far, as scaleblockcycles_clear() returns them
Estimates == {U32(3), U32(4)}

\* recCFC2, recCTC2, recQMFC2, recQMTC2 up to the compare of the sync check
recTransfer_sync ==
  /\ fn \in Transfers
  /\ pc = "entry"
  /\ \E est \in Estimates, ends \in BOOLEAN :
       Becomes(Transfer_sync(Cur, fn, code, est, ends))
  /\ pc' = IF TargetReg(fn, code) = 0 THEN "ret" ELSE "body"
  /\ UNCHANGED <<code, fn, retired, hist>>
  /\ UNCHANGED pxThread

\* ... and from there to their end
recTransfer_rest ==
  /\ fn \in Transfers
  /\ pc = "body"
  /\ \E ends \in BOOLEAN : Becomes(Transfer_rest(Cur, fn, code, ends))
  /\ pc' = "ret"
  /\ hist' = [hist EXCEPT
       !.statusWrite = IF fn = "recCTC2" /\ _Rd_(code) = REG_STATUS_FLAG
                       THEN [has |-> TRUE, val |-> vu0Regs'.VI[REG_STATUS_FLAG]] ELSE @,
       !.qOther = IF fn = "recCTC2" /\ _Rd_(code) = REG_Q THEN TRUE ELSE @]
  /\ UNCHANGED <<code, fn, retired>>
  /\ UNCHANGED pxThread

----------------------------------------------------------------------------
(* COP2 condition branches and the unimplemented-opcode routine *)

\* a flag as an event argument
Flag(b) == IF b THEN U32(1) ELSE Zero32

\* a slip: the two jump types are exchanged
BranchSkipJump_inverted(f) == IF f \in {"recBC2F", "recBC2FL"} THEN "JZ32" ELSE "JNZ32"

\* the jmpType argument of recBC2F, recBC2T, recBC2FL, recBC2TL
BranchSkipJump(f) == IF f \in {"recBC2F", "recBC2FL"} THEN "JNZ32" ELSE "JZ32"

\* the isLikely argument of recBC2F, recBC2T, recBC2FL, recBC2TL
BranchLikely(f) == f \in {"recBC2FL", "recBC2TL"}

\* recDoBranchImm(jmpSkip, isLikely): jmpSkip is the jump over the taken path,
\* so the branch is taken when the condition of jmpSkip fails; zf is the zero
\* flag the xTEST before it left
recDoBranchImm(m, zf, jmpSkip, isLikely) ==
  LET skip == IF jmpSkip = "JZ32" THEN zf ELSE ~zf
  IN  Ev(Ev(m, "recDoBranchImm", Flag(isLikely)), "branch_taken", Flag(~skip))

\* a slip: the branch test synchronizes with VU0 as a transfer does
_setupBranchTest_interlocks(m, jmpType, isLikely) ==
  LET m0 == COP2_Interlock(m, FALSE, U32(3), TRUE)
      m1 == Ev(m0, "_eeFlushAllUnused", Zero32)
      t  == AND32(m1.vu.VI[REG_VPU_STAT], U32(\h100))
      m2 == Ev(m1, "xTEST_VPU_STAT_100", t)
  IN  recDoBranchImm(m2, t = Zero32, jmpType, isLikely)

\* void _setupBranchTest(u32*(jmpType)(u32), bool isLikely)
_setupBranchTest(m, jmpType, isLikely) ==
  LET m1 == Ev(m, "_eeFlushAllUnused", Zero32)
      t  == AND32(m1.vu.VI[REG_VPU_STAT], U32(\h100))
      m2 == Ev(m1, "xTEST_VPU_STAT_100", t)
  IN  recDoBranchImm(m2, t = Zero32, jmpType, isLikely)

\* recBC2F, recBC2T, recBC2FL, recBC2TL
recBC2 ==
  /\ fn \in Branches
  /\ pc = "entry"
  /\ Becomes(_setupBranchTest(Cur, BranchSkipJump(fn), BranchLikely(fn)))
  /\ pc' = "ret"
  /\ UNCHANGED <<code, fn, retired, hist>>
  /\ UNCHANGED pxThread

\* a slip: the routine flushes the host registers
rec_C2UNK_flushes(m) == iFlushCall(m)

\* static void rec_C2UNK(void) { }
rec_C2UNK(m) == m

\* the routines of lines 236-239 and rec_C2UNK
MiscOps == {"recVNOP", "recVWAITQ", "recVCALLMS", "recVCALLMSR", "rec_C2UNK"}

\* INTERPRETATE_COP2_FUNC(f): recCall(V##f); _freeX86regs();
INTERPRETATE_COP2_FUNC(m) == Ev(Ev(m, "recCall", Zero32), "_freeX86regs", Zero32)

\* recVNOP and recVWAITQ have empty bodies
recV_misc ==
  /\ fn \in MiscOps
  /\ pc = "entry"
  /\ Becomes(CASE fn \in {"recVCALLMS", "recVCALLMSR"} -> INTERPRETATE_COP2_FUNC(Cur)
               [] fn = "rec_C2UNK" -> rec_C2UNK(Cur)
               [] OTHER -> Cur)
  /\ pc' = "ret"
  /\ UNCHANGED <<code, fn, retired, hist>>
  /\ UNCHANGED pxThread

----------------------------------------------------------------------------
(* Instruction words *)

\* the word that dispatches to entry i of recCOP2SPECIAL1t
Spec1Word(i) == CodeWord(16, 0, 0, i)

\* the word that dispatches to entry j of recCOP2SPECIAL2t
Spec2Word(j) == CodeWord(16, 0, 0, 60 + (j % 4) + 64 * (j \div 4))

\* the word of the SPECIAL1 or SPECIAL2 routine f
WordOf(f) ==
  IF \E i \in DOMAIN recCOP2SPECIAL1t : recCOP2SPECIAL1t[i] = f
  THEN Spec1Word((CHOOSE i \in DOMAIN recCOP2SPECIAL1t : recCOP2SPECIAL1t[i] = f) - 1)
  ELSE Spec2Word((CHOOSE j \in DOMAIN recCOP2SPECIAL2t : recCOP2SPECIAL2t[j] = f) - 1)

\* the word of the transfer routine f with the given registers and interlock bit
TransferWord(f, rt, rd, il) ==
  CodeWord((CHOOSE i \in DOMAIN recCOP2t : recCOP2t[i] = f) - 1, rt, rd, il)

----------------------------------------------------------------------------
(* Spec: streams of envelope instructions, with the transfers that read and
   write the status, clip and Q control registers between them *)

\* one routine of each mode descriptor in use: 0x00, 0x04, 0x08, 0x10, 0x11, 0x12
StreamOps == {"recVABS", "recVIADD", "recVCLIP", "recVADD", "recVADDq", "recVDIV"}

StreamWords ==
  {WordOf(f) : f \in StreamOps}
  \cup {TransferWord("recCFC2", 2, rd, 0) : rd \in {REG_STATUS_FLAG, REG_CLIP_FLAG}}
  \cup {TransferWord("recCTC2", 1, rd, 0) : rd \in {REG_STATUS_FLAG, REG_Q}}
  \cup {TransferWord("recCTC2", 0, REG_STATUS_FLAG, 0)}
  \cup {WordOf("recVNOP"), WordOf("recVCALLMS"), Spec1Word(51), CodeWord(8, 0, 0, 0)}
  \cup {TransferWord("recCTC2", rt, rd, 0) :
          rt \in {0, 1}, rd \in {REG_MAC_FLAG, REG_TPC, REG_VPU_STAT}}

\* GPR[1] as the guest program left it: the source of the CTC2 writes
StreamSource == <<<<\h4000, \h0FC3>>, Zero32, Zero32, Zero32>>

Init == InitWith(Machine(FALSE, Zero32, Zero32, Zero32, StreamSource))

FetchStream == Fetch(StreamWords, MaxInstr)

Next ==
  \/ FetchStream
  \/ recCOP2
  \/ recCOP2_SPEC1
  \/ recCOP2_SPEC2
  \/ recV_setup
  \/ recV_pass0
  \/ recV_pass1
  \/ recV_end
  \/ recTransfer_sync
  \/ recTransfer_rest
  \/ recCOP2_BC2
  \/ recBC2
  \/ recV_misc
  \/ Ret

Spec == Init /\ [][Next]_vars

----------------------------------------------------------------------------
(* SpecTransfer: the four transfer instructions from every combination of the
   VU0 busy bit and the cycle counters *)

TransferWords ==
  {TransferWord(f, rt, rd, il) :
     f \in Transfers, rt \in {0, 1}, rd \in {0, 1, REG_CMSAR1}, il \in {0, 1}}

\* cpuRegs.cycle, vu0Regs.cycle and vu0Regs.nextBlockCycles at the start: the
\* main CPU ahead of VU0 by an amount near the threshold, behind it, and about
\* to wrap around
StartCycles == {U32(10), <<\hFFFF, \hFFFE>>}
StartVuCycles == {U32(2), U32(5), U32(40)}
StartNextBlock == {U32(0), U32(1)}

InitTransfer ==
  \E busy \in BOOLEAN, c \in StartCycles, v \in StartVuCycles, n \in StartNextBlock :
    InitWith(Machine(busy, c, v, n, StreamSource))

\* number of transfer instructions one run of SpecTransfer translates
MaxTransfers == 2

FetchTransfer == Fetch(TransferWords, MaxTransfers)

\* the micro-mode engine starts a VU0 microprogram between two instructions
StartMicro ==
  /\ fn = "idle"
  /\ ~Busy(Cur)
  /\ Becomes(SetBusy([Cur EXCEPT !.vu.cycle = cpuRegs.cycle], TRUE))
  /\ UNCHANGED <<code, fn, pc, retired, hist>>
  /\ UNCHANGED pxThread

NextTransfer ==
  \/ FetchTransfer
  \/ StartMicro
  \/ recCOP2
  \/ recTransfer_sync
  \/ recTransfer_rest
  \/ Ret

SpecTransfer == InitTransfer /\ [][NextTransfer]_vars

\* number of transfer instructions one run of SpecTransferFair translates
MaxFairTransfers == 1

FetchFair == Fetch(TransferWords, MaxFairTransfers)

NextTransferFair ==
  \/ FetchFair
  \/ StartMicro
  \/ recCOP2
  \/ recTransfer_sync
  \/ recTransfer_rest
  \/ Ret

\* a step of a transfer routine, and the states in which one can be taken
TransferStep == recTransfer_sync \/ recTransfer_rest
AtTransferStep == fn \in Transfers /\ pc \in {"entry", "body"}

\* a routine the dispatcher has called runs to its return: the translation is
\* single-threaded and nothing preempts it. The last conjunct is
\* WF_vars(TransferStep) with ENABLED <<TransferStep>>_vars written as the
\* state predicate it equals, AtTransferStep.
SpecTransferFair ==
  /\ InitTransfer
  /\ [][NextTransferFair]_vars
  /\ WF_vars(recCOP2)
  /\ (<>[]AtTransferStep => []<><<TransferStep>>_vars)

----------------------------------------------------------------------------
(* SpecMove: QMTC2 and QMFC2 between three main-CPU and three VF registers *)

\* number of move instructions one run of SpecMove translates
MaxMoves == 2

MoveWords ==
  {TransferWord(f, rt, rd, il) :
     f \in {"recQMTC2", "recQMFC2"}, rt \in 0..2, rd \in 0..2, il \in {0, 1}}

\* GPR[2] as the guest program left it: four different words
MoveSource == <<<<\h8000, \h0001>>, <<\h1234, \h5678>>, <<0, \hFFFF>>, <<\hFFFF, 0>>>>

InitMove ==
  \E busy \in BOOLEAN :
    InitWith([Machine(busy, U32(10), U32(2), Zero32, StreamSource)
                EXCEPT !.cpu.GPR[2] = MoveSource])

\* recQMFC2 and recQMTC2 from the compare of the sync check to their end, with
\* a record of what the last QMTC2 moved and where
recMove_rest ==
  /\ fn \in {"recQMTC2", "recQMFC2"}
  /\ pc = "body"
  /\ \E ends \in BOOLEAN : Becomes(Transfer_rest(Cur, fn, code, ends))
  /\ pc' = "ret"
  /\ hist' = [hist EXCEPT
       !.vfMove = IF fn = "recQMTC2"
                  THEN [has |-> TRUE, rd |-> _Rd_(code), val |-> cpuRegs.GPR[_Rt_(code)]]
                  ELSE IF vu0Regs'.VF # vu0Regs.VF THEN HistZero.vfMove ELSE @]
  /\ UNCHANGED <<code, fn, retired>>
  /\ UNCHANGED pxThread

NextMove ==
  \/ Fetch(MoveWords, MaxMoves)
  \/ recCOP2
  \/ recTransfer_sync
  \/ recMove_rest
  \/ Ret

SpecMove == InitMove /\ [][NextMove]_vars

----------------------------------------------------------------------------
(* SpecRead: CFC2 of a control register below 16 and of one from 16 up, from
   every sign of the value read *)

\* number of CFC2 instructions one run of SpecRead translates
MaxReads == 2

\* the integer register VI[15] and the R register
ReadRegs == {15, REG_R}

ReadWords ==
  {TransferWord("recCFC2", rt, rd, il) : rt \in 0..2, rd \in ReadRegs, il \in {0, 1}}

\* what the control register holds: bit 31 set and clear, bit 15 set and clear
ControlValues ==
  {<<\h8000, 0>>, <<\hFFFF, \hFFFF>>, <<\h7FFF, \hFFFF>>, <<0, \h8000>>}

InitRead ==
  \E busy \in BOOLEAN, v \in ControlValues :
    InitWith([Machine(busy, U32(10), U32(2), Zero32, StreamSource)
                EXCEPT !.cpu.GPR[2] = MoveSource,
                       !.vu.VI = [r \in 0..31 |-> IF r \in ReadRegs THEN v ELSE @[r]]])

NextRead ==
  \/ Fetch(ReadWords, MaxReads)
  \/ recCOP2
  \/ recTransfer_sync
  \/ recTransfer_rest
  \/ Ret

SpecRead == InitRead /\ [][NextRead]_vars

----------------------------------------------------------------------------
(* SpecWrite: CTC2 to the R register and to FBRST, from source values at the
   edges of the masks *)

\* number of CTC2 instructions one run of SpecWrite translates
MaxWrites == 2

WriteWords ==
  {TransferWord("recCTC2", rt, rd, il) :
     rt \in {0, 1}, rd \in {REG_R, REG_FBRST}, il \in {0, 1}}

\* the low word of GPR[1]: none, one and both of the reset-request bits with
\* bits inside and outside 0x0C0C; all ones; bit 23 alone and the 23 bits
\* below it; bit 31 alone
SourceValues ==
  {Zero32, <<\hFFFF, \hFFFF>>, <<0, \h0C0C>>, <<0, \h0002>>, <<0, \h0200>>,
   <<0, \h0202>>, <<\h1234, \h0E0E>>, <<\h0080, 0>>, <<\h007F, \hFFFF>>,
   <<\h8000, 0>>}

InitWrite ==
  \E busy \in BOOLEAN, v \in SourceValues :
    InitWith(Machine(busy, U32(10), U32(2), Zero32, <<v, Zero32, Zero32, Zero32>>))

NextWrite ==
  \/ Fetch(WriteWords, MaxWrites)
  \/ recCOP2
  \/ recTransfer_sync
  \/ recTransfer_rest
  \/ Ret

SpecWrite == InitWrite /\ [][NextWrite]_vars

----------------------------------------------------------------------------
(* SpecThread: one pxThread object, the thread that owns it (Start, then the
   destructor), its worker thread, and two more threads calling Detach. One
   step is one access to the object's shared fields. *)

\* number of times one run starts the thread
MaxStarts == 2

\* number of Detach() calls d1 and d2 make in one run
MaxDetachCalls == 3

\* a step of one of the threads: the recompiler is not involved
Step(t) ==
  /\ pxThread' = t
  /\ UNCHANGED <<code, fn, pc, cpuRegs, vu0Regs, microVU0, x86, log, retired, hist>>

\* a slip: the previous value is not looked at, as a plain store would do
exchange_blind(old, new) == [was |-> FALSE, now |-> new]

\* std::atomic<bool>::exchange: stores the new value, returns the previous one
exchange(old, new) == [was |-> old, now |-> new]

\* a Detach() call that began in the current epoch
InEpoch(c) == pxThread.callEpoch[c] = pxThread.epoch

\* bool pxThread::Detach(): d1 or d2 enters; m_detached.exchange(true) and the
\* return of false when it was set; pthread_detach(m_thread) and the return
\* of true
Detach ==
  \E c \in Callers :
    \/ /\ c # "owner"
       /\ pxThread.alive
       /\ pxThread.detach[c] = "none"
       /\ pxThread.calls < MaxDetachCalls
       /\ Step([pxThread EXCEPT !.detach[c] = "exchange",
                                 !.callEpoch[c] = pxThread.epoch,
                                 !.calls = @ + 1])
    \/ /\ pxThread.detach[c] = "exchange"
       /\ LET x == exchange(pxThread.m_detached, TRUE)
          IN  Step([pxThread EXCEPT
                !.m_detached = x.now,
                !.detach[c] = IF x.was THEN "none" ELSE "pthread_detach",
                !.returnedFalse = IF x.was /\ InEpoch(c) THEN @ + 1 ELSE @])
    \/ /\ pxThread.detach[c] = "pthread_detach"
       /\ Step([pxThread EXCEPT
             !.detach[c] = "none",
             !.pthread_detach = IF InEpoch(c) THEN @ + 1 ELSE @,
             !.returnedTrue = IF InEpoch(c) THEN @ + 1 ELSE @])

\* void pxThread::Start(), called with the thread not running (with m_running
\* set it returns at once): Detach(); OnStart() and pthread_create; the wait
\* for m_sem_startup
Start ==
  \/ /\ pxThread.owner = "idle"
     /\ pxThread.alive
     /\ ~pxThread.m_running
     /\ pxThread.starts < MaxStarts
     /\ Step([pxThread EXCEPT !.owner = "Start_Detach",
                               !.detach["owner"] = "exchange",
                               !.callEpoch["owner"] = pxThread.epoch])
  \/ /\ pxThread.owner = "Start_Detach"
     /\ pxThread.detach["owner"] = "none"
     /\ Step([pxThread EXCEPT !.owner = "Start_Wait",
                               !.m_mtx_InThread = "free",
                               !.m_sem_startup = 0,
                               !.worker = "Acquire",
                               !.starts = @ + 1])
  \/ /\ pxThread.owner = "Start_Wait"
     /\ pxThread.m_sem_startup > 0
     /\ Step([pxThread EXCEPT !.owner = "idle", !.m_sem_startup = @ - 1])

\* void pxThread::_internal_execute(), in the worker: m_mtx_InThread.Acquire();
\* OnStartInThread(), which is m_detached = false and then m_running = true;
\* m_sem_startup.Post()
_internal_execute ==
  \/ /\ pxThread.worker = "Acquire"
     /\ pxThread.m_mtx_InThread = "free"
     /\ Step([pxThread EXCEPT !.worker = "m_detached", !.m_mtx_InThread = "worker"])
  \/ /\ pxThread.worker = "m_detached"
     /\ Step([pxThread EXCEPT !.worker = "m_running",
                               !.m_detached = FALSE,
                               !.epoch = @ + 1,
                               !.returnedTrue = 0,
                               !.returnedFalse = 0,
                               !.pthread_detach = 0])
  \/ /\ pxThread.worker = "m_running"
     /\ Step([pxThread EXCEPT !.worker = "Post", !.m_running = TRUE])
  \/ /\ pxThread.worker = "Post"
     /\ Step([pxThread EXCEPT !.worker = "ExecuteTaskInThread", !.m_sem_startup = 1])

\* the task of the thread returns or is canceled; the cleanup handler runs
ExecuteTaskInThread ==
  /\ pxThread.worker = "ExecuteTaskInThread"
  /\ Step([pxThread EXCEPT !.worker = "Release"])

\* void pxThread::_ThreadCleanup(), in the worker: m_mtx_InThread.Release(),
\* then m_running = false
_ThreadCleanup ==
  \/ /\ pxThread.worker = "Release"
     /\ Step([pxThread EXCEPT !.worker = "m_running_false", !.m_mtx_InThread = "free"])
  \/ /\ pxThread.worker = "m_running_false"
     /\ Step([pxThread EXCEPT !.worker = "exited", !.m_running = FALSE])

\* pxThread::~pxThread(), in the owning thread: the test of m_running;
\* m_mtx_InThread.Wait(), which returns once the mutex is free; Sleep(1);
\* Detach(); the object is gone
pxThread_dtor ==
  \/ /\ pxThread.owner = "idle"
     /\ pxThread.alive
     /\ Step([pxThread EXCEPT !.owner = IF pxThread.m_running THEN "Wait" ELSE "Sleep"])
  \/ /\ pxThread.owner = "Wait"
     /\ pxThread.m_mtx_InThread = "free"
     /\ Step([pxThread EXCEPT !.owner = "Sleep"])
  \/ /\ pxThread.owner = "Sleep"
     /\ Step([pxThread EXCEPT !.owner = "dtor_Detach",
                               !.detach["owner"] = "exchange",
                               !.callEpoch["owner"] = pxThread.epoch])
  \/ /\ pxThread.owner = "dtor_Detach"
     /\ pxThread.detach["owner"] = "none"
     /\ Step([pxThread EXCEPT !.owner = "gone", !.alive = FALSE])

NextThread ==
  \/ Start
  \/ Detach
  \/ _internal_execute
  \/ ExecuteTaskInThread
  \/ _ThreadCleanup
  \/ pxThread_dtor

SpecThread == Init /\ [][NextThread]_vars

----------------------------------------------------------------------------
(* SpecDispatch: the dispatch of every instruction word, up to the call of the
   routine the tables select; what the routines then do is the subject of the
   other specifications. *)

\* every value of every field a table is indexed with: all rs and rt, and all of
\* bits 10..0 under both ends of the SPECIAL range of rs
DispatchWords ==
  {CodeWord(rs, rt, rd, low) :
     rs \in 0..31, rt \in 0..31, rd \in {0, 31}, low \in {0, 1, 2047}}
  \cup
  {CodeWord(rs, rt, rd, low) :
     rs \in {16, 31}, rt \in {0}, rd \in {0, 31}, low \in 0..2047}

InitDispatch ==
  \E busy \in BOOLEAN :
    InitWith(Machine(busy, Zero32, Zero32, Zero32, Vec4(Zero32)))

FetchAny == Fetch(DispatchWords, MaxInstr)

\* the routine a table entry names is entered; its return ends the instruction
CallReturns ==
  /\ fn \in Routines \ (Dispatchers \cup Branches)
  /\ pc = "entry"
  /\ pc' = "ret"
  /\ Becomes(IF fn = "rec_C2UNK" THEN rec_C2UNK(Cur) ELSE Cur)
  /\ UNCHANGED <<code, fn, retired, hist>>
  /\ UNCHANGED pxThread

NextDispatch ==
  \/ FetchAny
  \/ recCOP2
  \/ recCOP2_BC2
  \/ recCOP2_SPEC1
  \/ recCOP2_SPEC2
  \/ recBC2
  \/ CallReturns
  \/ Ret

SpecDispatch == InitDispatch /\ [][NextDispatch]_vars

----------------------------------------------------------------------------
(* SpecBranch: the BC2 instructions from every combination of the VU0 and VU1
   busy bits of VPU_STAT *)

\* VPU_STAT bit 8, the bit the branches test
SetBusy1(m, b) ==
  [m EXCEPT !.vu.VI[REG_VPU_STAT] = IF b THEN OR32(@, U32(\h100)) ELSE @]

\* BC2 words of every rt, with both values of bit 0 of the offset
BranchWords ==
  {CodeWord(8, rt, 0, low) : rt \in 0..31, low \in {0, 1}}

InitBranch ==
  \E busy \in BOOLEAN, busy1 \in BOOLEAN :
    InitWith(SetBusy1(Machine(busy, Zero32, Zero32, Zero32, Vec4(Zero32)), busy1))

FetchBranch == Fetch(BranchWords, MaxInstr)

NextBranch ==
  \/ FetchBranch
  \/ recCOP2
  \/ recCOP2_BC2
  \/ recBC2
  \/ CallReturns
  \/ Ret

SpecBranch == InitBranch /\ [][NextBranch]_vars

TableSize(name) ==
  CASE name = "recCOP2t" -> recCOP2t_size
    [] name = "recCOP2_BC2t" -> recCOP2_BC2t_size
    [] name = "recCOP2SPECIAL1t" -> recCOP2SPECIAL1t_size
    [] name = "recCOP2SPECIAL2t" -> recCOP2SPECIAL2t_size

TableNames == {"recCOP2t", "recCOP2_BC2t", "recCOP2SPECIAL1t", "recCOP2SPECIAL2t"}

\* the table lookups of the current instruction
Lookups == {i \in DOMAIN log : log[i][1] \in TableNames}

\* C1: for every instruction word, each table lookup of the dispatch (primary,
\* BC2, SPECIAL1, SPECIAL2) indexes inside the table's declared bounds (32, 32,
\* 64, 128), and control reaches a routine of the file, never a null entry.
C1_DispatchTotal ==
  /\ \A i \in Lookups : ToNat(log[i][2]) < TableSize(log[i][1])
  /\ fn \in Routines \cup {"idle"}

\* the last entry of the largest table has been dispatched to
C1_Witness ==
  /\ \E i \in Lookups :
       log[i][1] = "recCOP2SPECIAL2t" /\ ToNat(log[i][2]) = recCOP2SPECIAL2t_size - 1
  /\ fn = "rec_C2UNK"
  /\ AND32(code, <<\h03FF, \hFFFF>>) = <<\h03FF, \hFFFF>>

----------------------------------------------------------------------------
(* Properties of the envelope (Spec) *)

EventsNamed(l, name) == {i \in DOMAIN l : l[i][1] = name}

Called(l, name) == EventsNamed(l, name) # {}

\* a routine with UPDATES_STATUS_MAC is between its setupMacroOp and the commit
\* of its endMacroOp
InBody ==
  /\ fn \in EnvelopeOps
  /\ HasMode(ModeOf(fn), 16)
  /\ pc \in {"pass0", "pass1", "end"}

\* an envelope routine of the given mode bit has returned
Returned(bit) ==
  /\ fn \in EnvelopeOps
  /\ HasMode(ModeOf(fn), bit)
  /\ pc = "ret"

\* C2: while an instruction with UPDATES_STATUS_MAC (0x10) is between
\* setupMacroOp and the commit of endMacroOp, the scalar status register holds
\* the value the last instruction that produced a status stored there (the
\* reset value before any did); the value being computed lives in gprF0 only.
C2_StatusLatency ==
  InBody => vu0Regs.VI[REG_STATUS_FLAG] = hist.statusWrite.val

\* the body has computed a status that differs from the visible one, which an
\* earlier instruction stored
C2_Witness ==
  /\ InBody
  /\ pc = "end"
  /\ hist.statusWrite.has
  /\ vu0Regs.VI[REG_STATUS_FLAG] # Zero32
  /\ Normalize(x86.gprF0) # vu0Regs.VI[REG_STATUS_FLAG]

\* C3 as stated: right after an endMacroOp with UPDATES_STATUS_MAC, each of the
\* four lanes of micro_statusflags holds the same value as the scalar status
\* word VI[REG_STATUS_FLAG].
C3_Original ==
  Returned(16) => vu0Regs.micro_statusflags = Vec4(vu0Regs.VI[REG_STATUS_FLAG])

\* C3 amended: right after an endMacroOp with UPDATES_STATUS_MAC, each of the
\* four lanes of micro_statusflags holds the denormalized form of the scalar
\* status word VI[REG_STATUS_FLAG].
C3_BroadcastDenormalized ==
  Returned(16) =>
    vu0Regs.micro_statusflags = Vec4(Denormalize(vu0Regs.VI[REG_STATUS_FLAG]))

\* a nonzero status has been committed and broadcast; the lanes are not the
\* scalar word
C3_Witness ==
  /\ Returned(16)
  /\ vu0Regs.VI[REG_STATUS_FLAG] # Zero32
  /\ vu0Regs.micro_statusflags[4] # Zero32
  /\ vu0Regs.micro_statusflags[4] # vu0Regs.VI[REG_STATUS_FLAG]

\* the mVU_##f calls of the current routine, in order, by their pass argument
BodyCalls == [i \in 1..Cardinality(EventsNamed(log, "mVU_f")) |->
                log[CHOOSE k \in EventsNamed(log, "mVU_f") :
                      Cardinality({j \in EventsNamed(log, "mVU_f") : j <= k}) = i][2]]

\* C7: every routine REC_COP2_mVU0 generates has, when it returns, called
\* setupMacroOp once, then the opcode body, then endMacroOp once with the same
\* mode; it never returns after setupMacroOp without endMacroOp.
C7_EnvelopePaired ==
  (fn \in EnvelopeOps /\ pc = "ret") =>
    /\ Cardinality(EventsNamed(log, "setupMacroOp")) = 1
    /\ Cardinality(EventsNamed(log, "endMacroOp")) = 1
    /\ Called(log, "mVU_f")
    /\ \A s \in EventsNamed(log, "setupMacroOp"), e \in EventsNamed(log, "endMacroOp") :
         /\ log[s][2] = U32(ModeOf(fn))
         /\ log[e][2] = log[s][2]
         /\ \A b \in EventsNamed(log, "mVU_f") : s < b /\ b < e
    /\ microVU0.cop2 = 0

\* a dual-issue routine whose lower op is a NOP has returned through endMacroOp
C7_Witness ==
  /\ fn = "recVIADD"
  /\ pc = "ret"
  /\ microVU0.info.lOp.isNOP
  /\ Called(log, "endMacroOp")
  /\ log[Len(log) - 1][1] = "regAlloc_flushAll"

\* C8: a routine whose mode has DUAL_ISSUE (0x04) calls mVU_##f(mVU, 0) only
\* when that call left lOp.isNOP true, and mVU_##f(mVU, 0) then mVU_##f(mVU, 1)
\* when it left it false, in both cases between one setupMacroOp and one
\* endMacroOp.
C8_DualIssueCalls ==
  Returned(4) =>
    /\ BodyCalls = IF microVU0.info.lOp.isNOP THEN <<U32(0)>> ELSE <<U32(0), U32(1)>>
    /\ \A b \in EventsNamed(log, "mVU_f") :
         /\ \E s \in EventsNamed(log, "setupMacroOp") : s < b
         /\ \E e \in EventsNamed(log, "endMacroOp") : b < e

\* the lower op was a NOP and the second call was not made
C8_Witness ==
  /\ Returned(4)
  /\ microVU0.info.lOp.isNOP
  /\ BodyCalls = <<U32(0)>>

\* a routine with READS_Q has just loaded its working Q register
QLoaded ==
  /\ fn \in EnvelopeOps
  /\ HasMode(ModeOf(fn), 1)
  /\ pc \in {"pass0", "pass1"}
  /\ hist.qStore.has

\* C9 as stated: after a WRITES_Q instruction stored Q at endMacroOp, a later
\* READS_Q instruction, with no WRITES_Q instruction in between, loads exactly
\* that value into xmmPQ at setupMacroOp.
C9_Original ==
  QLoaded => x86.xmmPQ = hist.qStore.val

\* C9 amended: ... with no instruction in between that has WRITES_Q or is a
\* CTC2 to REG_Q, loads exactly that value into xmmPQ at setupMacroOp.
C9_QRoundTrip ==
  (QLoaded /\ ~hist.qOther) => x86.xmmPQ = hist.qStore.val

\* a READS_Q routine has loaded the Q a WRITES_Q routine stored, one other
\* instruction having run in between
C9_Witness ==
  /\ QLoaded
  /\ ~hist.qOther
  /\ hist.qSince >= 2
  /\ x86.xmmPQ = hist.qStore.val
  /\ x86.xmmPQ \in QResults

\* a CFC2 of the status register has returned, the instruction before it
\* having been a CLIP that produced clip bits
ClipThenStatusRead ==
  /\ fn = "recCFC2"
  /\ pc = "ret"
  /\ _Rd_(code) = REG_STATUS_FLAG
  /\ _Rt_(code) # 0
  /\ hist.prevClip
  /\ vu0Regs.VI[REG_CLIP_FLAG] # hist.prevClipFlag

\* C10 as stated: when a CLIP is followed immediately by a CFC2 of
\* REG_STATUS_FLAG, the value the CFC2 writes to the main-CPU register reflects
\* the clip bits the CLIP produced: it is not the value it would have been
\* without the CLIP.
C10_Original ==
  ClipThenStatusRead => cpuRegs.GPR[_Rt_(code)][1] # hist.prevStatus

\* C10 amended: when a CLIP is followed immediately by a CFC2 of
\* REG_STATUS_FLAG, the value the CFC2 writes is the scalar status word as it
\* was before the CLIP; the clip bits are in VI[REG_CLIP_FLAG] only.
C10_ClipLeavesStatus ==
  ClipThenStatusRead =>
    /\ cpuRegs.GPR[_Rt_(code)][1] = hist.prevStatus
    /\ cpuRegs.GPR[_Rt_(code)][1] = vu0Regs.VI[REG_STATUS_FLAG]

\* a nonzero status was read after a CLIP that produced nonzero clip bits
C10_Witness ==
  /\ ClipThenStatusRead
  /\ cpuRegs.GPR[_Rt_(code)][1] # Zero32
  /\ AND32(vu0Regs.VI[REG_CLIP_FLAG], U32(\h3F)) # Zero32

----------------------------------------------------------------------------
(* Properties of the transfers (SpecTransfer) *)

\* the emitted code of the transfer body
BodyEvents == {"read_VI", "write_GPR", "_eeOnWriteReg", "read_VF"}

\* the busy test of the current routine found VU0 busy
BusyAtTest ==
  \E i \in EventsNamed(log, "xTEST_VPU_STAT") : log[i][2] = U32(1)

\* CFC2 or QMFC2 with the interlock bit set is past its COP2_Interlock
InterlockedRead ==
  /\ fn \in {"recCFC2", "recQMFC2"}
  /\ Interlocked(code)
  /\ pc \in {"body", "ret"}

\* C4: for CFC2 and QMFC2 with the interlock bit set, when the busy test finds
\* VU0 busy _vu0FinishMicro is called, before any instruction of the transfer
\* body (the read of the VU0 register, the write of the main-CPU register).
C4_FinishBeforeBody ==
  (InterlockedRead /\ BusyAtTest) =>
    \E i \in EventsNamed(log, "_vu0FinishMicro") :
      \A j \in DOMAIN log : log[j][1] \in BodyEvents => i < j

\* an interlocked CFC2 found VU0 busy and has written its register
C4_Witness ==
  /\ InterlockedRead
  /\ fn = "recCFC2"
  /\ pc = "ret"
  /\ BusyAtTest
  /\ Called(log, "write_GPR")

\* a transfer without the interlock bit is at its sync check
AtSyncCheck ==
  /\ fn \in Transfers
  /\ ~Interlocked(code)
  /\ pc = "body"

\* (cpuRegs.cycle - vu0Regs.cycle) - vu0Regs.nextBlockCycles
Backlog ==
  SUB32(SUB32(cpuRegs.cycle, vu0Regs.cycle), vu0Regs.nextBlockCycles)

\* the value the routine f compares with the threshold
BacklogOf(f) ==
  IF SubtractsNextBlock(f) THEN Backlog ELSE SUB32(cpuRegs.cycle, vu0Regs.cycle)

\* C5 as stated: a transfer executed with VU0 not busy calls ExecuteBlockJIT
\* if the backlog (cpuRegs.cycle - vu0Regs.cycle) - vu0Regs.nextBlockCycles is
\* 8 or more, and does not call it if the backlog is 7 or fewer.
C5_Original ==
  (fn \in Transfers /\ pc = "ret" /\ ~Interlocked(code) /\ TargetReg(fn, code) # 0
     /\ ~BusyAtTest) =>
    (Called(log, "ExecuteBlockJIT") <=> ~SLT32(Backlog, U32(SyncThreshold)))

\* C5 amended: a transfer without the interlock bit calls ExecuteBlockJIT in
\* its sync check exactly when VU0 is busy and the value it compares, taken
\* after the block's cycles were added to cpuRegs.cycle, is 8 or more (signed);
\* with VU0 not busy it never calls it.
C5_SyncWhenBusy ==
  [][AtSyncCheck =>
       (Called(log', "ExecuteBlockJIT")
          <=> (Busy(Cur) /\ ~SLT32(BacklogOf(fn), U32(SyncThreshold))))]_vars

\* the sync check compared exactly 8 and ExecuteBlockJIT was called
C5_Witness ==
  /\ fn \in Transfers
  /\ pc = "ret"
  /\ ~Interlocked(code)
  /\ \E i \in Compared(log) : log[i][2] = U32(SyncThreshold)
  /\ Called(log, "ExecuteBlockJIT")

\* C6: in the sync check of each of CFC2, CTC2, QMFC2 and QMTC2 the value
\* compared with 8 is (cpuRegs.cycle - vu0Regs.cycle) - vu0Regs.nextBlockCycles.
C6_SameFormula ==
  AtSyncCheck => \A i \in Compared(log) : log[i][2] = Backlog

----------------------------------------------------------------------------
(* Properties of the dispatch (SpecDispatch) *)

\* the table lookups of the current instruction, in order
LookupSeq == SelectSeq(log, LAMBDA e : e[1] \in TableNames)

\* everything else the translation of the current instruction emitted or called
NonLookups == SelectSeq(log, LAMBDA e : e[1] \notin TableNames)

\* control is in the unimplemented-opcode routine, or has just left it
InUnknown == fn = "rec_C2UNK" /\ pc \in {"entry", "ret"}

\* C12 as stated: the translation of an instruction word that decodes to an
\* unmapped slot emits no host code and calls no collaborator, at every
\* dispatch level.
C12_Original ==
  InUnknown => NonLookups = << >>

\* C12 amended: rec_C2UNK itself emits nothing and calls nothing.  Reached from
\* the primary or the BC2 table, the whole translation is empty; reached from
\* the SPECIAL1 or SPECIAL2 table, the translation is the prologue of
\* recCOP2_SPEC1 and nothing else: the flush, the VU0 busy test, and the call
\* of _vu0FinishMicro when that test finds VU0 busy.
C12_UnknownAddsNothing ==
  InUnknown =>
    LET n == NonLookups
    IN  IF Called(log, "recCOP2SPECIAL1t")
        THEN /\ Len(n) \in {2, 3}
             /\ n[1][1] = "iFlushCall"
             /\ n[2][1] = "xTEST_VPU_STAT"
             /\ (Len(n) = 3) <=> (n[2][2] = U32(1))
             /\ (Len(n) = 3) => (n[3][1] = "_vu0FinishMicro" /\ ~Busy(Cur))
        ELSE n = << >>

\* an unmapped SPECIAL2 slot has been translated with VU0 busy
C12_Witness ==
  /\ InUnknown
  /\ pc = "ret"
  /\ Called(log, "recCOP2SPECIAL2t")
  /\ Called(log, "_vu0FinishMicro")

\* C13: the dispatch of an instruction word makes at most three table lookups:
\* the primary table first, then the BC2 or the SPECIAL1 table, then the
\* SPECIAL2 table and only from entries 60..63 of SPECIAL1; after a BC2 or a
\* SPECIAL2 lookup control is in no dispatcher.
C13_DispatchAcyclic ==
  LET l == LookupSeq
      n == Len(LookupSeq)
  IN  /\ n <= 3
      /\ (n >= 1) => (l[1][1] = "recCOP2t")
      /\ (n >= 2) => (l[2][1] \in {"recCOP2_BC2t", "recCOP2SPECIAL1t"})
      /\ (n = 3) => /\ l[2][1] = "recCOP2SPECIAL1t"
                    /\ ToNat(l[2][2]) \in 60..63
                    /\ l[3][1] = "recCOP2SPECIAL2t"
      /\ (n >= 2 /\ l[n][1] \in {"recCOP2_BC2t", "recCOP2SPECIAL2t"}) =>
           (fn \notin Dispatchers)
      /\ (n = 2 /\ l[2][1] = "recCOP2SPECIAL1t" /\ fn \in Dispatchers) =>
           (fn = "recCOP2_SPEC2" /\ ToNat(l[2][2]) \in 60..63)
      /\ (n = 1 /\ fn \in Dispatchers) => (fn \in {"recCOP2_BC2", "recCOP2_SPEC1"})

\* a dispatch of three lookups has ended in a routine that returned
C13_Witness ==
  /\ Len(LookupSeq) = 3
  /\ pc = "ret"
  /\ fn \in EnvelopeOps

----------------------------------------------------------------------------
(* Properties of the branches (SpecBranch) *)

\* VPU_STAT & 0x100
BranchBit == TEST32(vu0Regs.VI[REG_VPU_STAT], U32(\h100))

\* a branch routine has returned
BranchDone == fn \in Branches /\ pc = "ret"

\* C19: the four BC2 branches test VPU_STAT & 0x100; BC2T and BC2TL are taken
\* exactly when the bit is 1, BC2F and BC2FL exactly when it is 0; the likely
\* flag given to recDoBranchImm is true exactly for BC2FL and BC2TL; entries
\* 0..3 of the BC2 table are BC2F, BC2T, BC2FL, BC2TL.
C19_BranchPolarity ==
  BranchDone =>
    /\ Cardinality(EventsNamed(log, "branch_taken")) = 1
    /\ \A i \in EventsNamed(log, "branch_taken") :
         (log[i][2] = U32(1)) <=> (BranchBit <=> fn \in {"recBC2T", "recBC2TL"})
    /\ Cardinality(EventsNamed(log, "recDoBranchImm")) = 1
    /\ \A i \in EventsNamed(log, "recDoBranchImm") :
         (log[i][2] = U32(1)) <=> (fn \in {"recBC2FL", "recBC2TL"})
    /\ \A i \in EventsNamed(log, "xTEST_VPU_STAT_100") :
         log[i][2] = AND32(vu0Regs.VI[REG_VPU_STAT], U32(\h100))
    /\ \A i \in EventsNamed(log, "recCOP2_BC2t") :
         /\ ToNat(log[i][2]) <= 3
         /\ fn = <<"recBC2F", "recBC2T", "recBC2FL", "recBC2TL">>[ToNat(log[i][2]) + 1]

\* BC2TL was taken with VU1 busy and VU0 idle
C19_Witness ==
  /\ BranchDone
  /\ fn = "recBC2TL"
  /\ BranchBit
  /\ ~Busy(Cur)
  /\ \E i \in EventsNamed(log, "branch_taken") : log[i][2] = U32(1)

\* what the interlock of a transfer emits and calls
InterlockEvents ==
  {"COP2_Interlock", "xTEST_VPU_STAT", "xMOV_cpuRegs_cycle", "xCMP",
   "ExecuteBlockJIT", "_vu0WaitMicro", "_vu0FinishMicro"}

\* C20: the translation of a BC2 branch emits no VU0 busy test and no update of
\* cpuRegs.cycle, calls none of ExecuteBlockJIT, _vu0WaitMicro and
\* _vu0FinishMicro, and leaves the VU0 registers and flags, the main-CPU
\* registers and the translator state as they were.
C20_BranchNoInterlock ==
  [][(fn \in Branches) =>
       (/\ vu0Regs' = vu0Regs
        /\ cpuRegs' = cpuRegs
        /\ microVU0' = microVU0
        /\ \A i \in DOMAIN log' : log'[i][1] \notin InterlockEvents)]_vars

\* a branch has been translated with VU0 busy, and VU0 is busy still
C20_Witness ==
  /\ BranchDone
  /\ Busy(Cur)
  /\ Called(log, "recDoBranchImm")
  /\ ~Called(log, "_vu0FinishMicro")

----------------------------------------------------------------------------
(* Properties of COP2_Interlock (SpecTransfer) *)

\* a transfer with the interlock bit set is past its COP2_Interlock
PastInterlock ==
  /\ fn \in Transfers
  /\ Interlocked(code)
  /\ pc \in {"body", "ret"}

\* how many times the emitted code of the current routine called name
Calls(name) == Cardinality(EventsNamed(log, name))

\* C14: past COP2_Interlock(mBitSync), when the busy test found VU0 busy
\* exactly one of the two calls was made, _vu0WaitMicro if mBitSync is true
\* and _vu0FinishMicro if it is false; when the test found VU0 idle neither
\* was made.
C14_OneResolution ==
  PastInterlock =>
    /\ Calls("_vu0WaitMicro") = IF BusyAtTest /\ MBitSync(fn) THEN 1 ELSE 0
    /\ Calls("_vu0FinishMicro") = IF BusyAtTest /\ ~MBitSync(fn) THEN 1 ELSE 0

\* an interlocked QMTC2 found VU0 busy, waited and has written its register
C14_Witness ==
  /\ PastInterlock
  /\ fn = "recQMTC2"
  /\ pc = "ret"
  /\ BusyAtTest
  /\ Called(log, "_vu0WaitMicro")
  /\ Called(log, "write_VF")

----------------------------------------------------------------------------
(* Order of the emitted code of a transfer (SpecTransfer) *)

\* the calls that bring VU0 up to date
SyncCalls == {"ExecuteBlockJIT", "_vu0WaitMicro", "_vu0FinishMicro"}

\* everything a transfer routine emits or calls ahead of its body
PrologueEvents ==
  {"recCOP2t", "COP2_Interlock", "iFlushCall", "xTEST_VPU_STAT",
   "xMOV_cpuRegs_cycle", "xCMP"} \cup SyncCalls

\* some event of the log before position j satisfies P
Before(j, P(_)) == \E i \in 1..(j - 1) : P(log[i])

\* C15: in the code emitted for a transfer the order is flush, busy test,
\* update of cpuRegs.cycle, the ExecuteBlockJIT / _vu0WaitMicro /
\* _vu0FinishMicro call, then the body: every busy test follows a flush, every
\* cycle update follows a busy test that found VU0 busy, every
\* synchronization call follows the cycle update, and every instruction of
\* the body follows all of them.
C15_EmittedOrder ==
  fn \in Transfers =>
    \A j \in DOMAIN log :
      /\ (log[j][1] = "xTEST_VPU_STAT") =>
            Before(j, LAMBDA e : e[1] = "iFlushCall")
      /\ (log[j][1] = "xMOV_cpuRegs_cycle") =>
            /\ Before(j, LAMBDA e : e = Event("xTEST_VPU_STAT", U32(1)))
            /\ cpuRegs.cycle = log[j][2]
      /\ (log[j][1] \in SyncCalls) =>
            Before(j, LAMBDA e : e[1] = "xMOV_cpuRegs_cycle")
      /\ (log[j][1] \notin PrologueEvents) =>
            \A i \in DOMAIN log : (log[i][1] \in PrologueEvents) => i < j

\* a QMFC2 without the interlock bit found VU0 busy, updated the cycle
\* counter, called ExecuteBlockJIT and then read the VF register
C15_Witness ==
  /\ fn = "recQMFC2"
  /\ pc = "ret"
  /\ ~Interlocked(code)
  /\ BusyAtTest
  /\ Called(log, "xMOV_cpuRegs_cycle")
  /\ Called(log, "ExecuteBlockJIT")
  /\ Called(log, "read_VF")

----------------------------------------------------------------------------
(* CTC2 to REG_CMSAR1 (SpecTransfer) *)

\* CTC2 with rd = REG_CMSAR1 has emitted its body
CmsarWritten ==
  /\ fn = "recCTC2"
  /\ pc = "ret"
  /\ _Rd_(code) = REG_CMSAR1

\* C18: a CTC2 to REG_CMSAR1 calls vu1Finish and then vu1ExecMicro, once each
\* and as the last two things it does, for every rt: vu1ExecMicro is given
\* GPR[rt].UL[0], or 0 when rt is 0, and the dispatch is never left out.
C18_FinishThenExec ==
  CmsarWritten =>
    LET n == Len(log)
    IN  /\ Calls("vu1Finish") = 1
        /\ Calls("vu1ExecMicro") = 1
        /\ n >= 2
        /\ log[n - 1] = Event("vu1Finish", U32(1))
        /\ log[n] = Event("vu1ExecMicro",
                          IF _Rt_(code) = 0 THEN Zero32
                          ELSE cpuRegs.GPR[_Rt_(code)][1])

\* a CTC2 to REG_CMSAR1 with rt = 0 has dispatched microprogram address 0
C18_Witness ==
  /\ CmsarWritten
  /\ _Rt_(code) = 0
  /\ Called(log, "vu1Finish")
  /\ log[Len(log)] = Event("vu1ExecMicro", Zero32)

----------------------------------------------------------------------------
(* CTC2 to REG_STATUS_FLAG (Spec) *)

\* CTC2 with rd = REG_STATUS_FLAG has emitted its body
StatusWritten ==
  /\ fn = "recCTC2"
  /\ pc = "ret"
  /\ _Rd_(code) = REG_STATUS_FLAG

\* the writable field of the status word, bits 6..11, and the field below it
StickyBits == U32(\hFC0)
LowBits == U32(\h3F)

\* C16: a CTC2 to REG_STATUS_FLAG leaves the scalar status at
\* (old status & 0x3F) | (GPR[rt] & 0xFC0): bits 0..5 keep their value, bits
\* 6..11 take the source's (zero when rt = 0), bits 12 and above are zero.
C16_StatusWriteMasked ==
  StatusWritten =>
    LET new == vu0Regs.VI[REG_STATUS_FLAG]
        src == IF _Rt_(code) = 0 THEN Zero32 ELSE cpuRegs.GPR[_Rt_(code)][1]
    IN  /\ new = OR32(AND32(hist.startStatus, LowBits), AND32(src, StickyBits))
        /\ AND32(new, LowBits) = AND32(hist.startStatus, LowBits)
        /\ AND32(new, StickyBits) = AND32(src, StickyBits)
        /\ AND32(new, <<\hFFFF, \hF000>>) = Zero32

\* a CTC2 from a source with bits in and outside the field has written over a
\* status whose bits 0..5 were not all zero
C16_Witness ==
  /\ StatusWritten
  /\ _Rt_(code) = 1
  /\ AND32(hist.startStatus, LowBits) # Zero32
  /\ AND32(cpuRegs.GPR[1][1], LowBits) # AND32(hist.startStatus, LowBits)
  /\ vu0Regs.VI[REG_STATUS_FLAG] # hist.startStatus

\* C17: after a CTC2 to REG_STATUS_FLAG every lane of micro_statusflags holds
\* the denormalized form of the scalar status just written, the relation
\* endMacroOp leaves with UPDATES_STATUS_MAC.
C17_StatusRebroadcast ==
  StatusWritten =>
    vu0Regs.micro_statusflags = Vec4(Denormalize(vu0Regs.VI[REG_STATUS_FLAG]))

\* a CTC2 with rt = 0 has cleared sticky bits an earlier instruction had set,
\* and the lanes have followed
C17_Witness ==
  /\ StatusWritten
  /\ _Rt_(code) = 0
  /\ AND32(hist.startStatus, StickyBits) # Zero32
  /\ vu0Regs.micro_statusflags[4] # Vec4(Denormalize(hist.startStatus))[4]

----------------------------------------------------------------------------
(* Completion of the interlock (SpecTransferFair) *)

\* the dispatcher has called recCOP2 with a transfer instruction
TransferEntered ==
  /\ fn = "recCOP2"
  /\ recCOP2t[_Rs_(code) + 1] \in Transfers

\* the transfer routine has emitted all its code and returns
TransferComplete ==
  /\ fn \in Transfers
  /\ pc = "ret"

\* C11: every transfer instruction, whatever its interlock bit, the busy bit,
\* the backlog and its target register, reaches the end of its routine; and
\* whenever COP2_Interlock found VU0 busy, VU0 is no longer busy when the
\* body of the transfer runs, nor after it.
C11_InterlockCompletes ==
  /\ TransferEntered ~> TransferComplete
  /\ [](PastInterlock /\ BusyAtTest => ~Busy(Cur))

\* an interlocked CTC2 found VU0 busy, ExecuteBlockJIT did not end the
\* microprogram, and VU0 is idle as the body is about to run
C11_Witness ==
  /\ PastInterlock
  /\ fn = "recCTC2"
  /\ pc = "body"
  /\ BusyAtTest
  /\ Called(log, "_vu0WaitMicro")
  /\ ~Busy(Cur)

----------------------------------------------------------------------------
(* The mode descriptors (SpecDispatch) *)

\* the modes the instantiations of REC_COP2_mVU0 use
WellFormedModes == {0, 4, 8, 16, 17, 18}

\* the instantiations of REC_COP2_mVU0 that define the routine f
InstancesOf(f) == {i \in DOMAIN REC_COP2_mVU0_ops : REC_COP2_mVU0_ops[i][1] = f}

\* C21: the mode of every routine the tables dispatch to is one of 0x00, 0x04,
\* 0x08, 0x10, 0x11, 0x12: the clip bit (0x08) comes with no other bit, no bit
\* outside 0x1F is set, and the routine is generated once, with one mode.
C21_ModesWellFormed ==
  (fn \in EnvelopeOps) =>
    /\ ModeOf(fn) \in WellFormedModes
    /\ HasMode(ModeOf(fn), 8) => (ModeOf(fn) = 8)
    /\ BitAnd(ModeOf(fn), 31) = ModeOf(fn)
    /\ Cardinality(InstancesOf(fn)) = 1
    /\ \A i \in InstancesOf(fn) : REC_COP2_mVU0_ops[i][2] = ModeOf(fn)

\* the dispatch has reached recVCLIP, the one routine with the clip bit
C21_Witness ==
  /\ fn = "recVCLIP"
  /\ pc = "entry"
  /\ ModeOf(fn) = 8
  /\ Len(log) >= 2

----------------------------------------------------------------------------
(* Order of the steps of endMacroOp (Spec) *)

\* the position of the one event called name that follows position k
After(k, name) == CHOOSE i \in EventsNamed(log, name) : i > k

\* C22: in endMacroOp with UPDATES_STATUS_MAC the normalized status is stored
\* in the scalar register first; the re-broadcast then reads the register, so
\* finds the value just stored, and writes its denormalized form to
\* micro_statusflags; clearing microVU0.cop2 is the last step.
C22_CommitThenBroadcast ==
  Returned(16) =>
    \E e \in EventsNamed(log, "endMacroOp") :
      /\ \E c \in EventsNamed(log, "xMOV_status"),
            d \in EventsNamed(log, "mVUallocSFLAGd"),
            b \in EventsNamed(log, "xMOVAPS_micro_statusflags") :
           /\ e < c /\ c < d /\ d < b /\ b < Len(log)
           /\ log[d][2] = log[c][2]
           /\ log[b][2] = Denormalize(log[c][2])
           /\ vu0Regs.VI[REG_STATUS_FLAG] = log[c][2]
      /\ \A i \in EventsNamed(log, "xMOVAPS_micro_statusflags") :
           After(e, "xMOV_status") < i
      /\ log[Len(log)] = Event("microVU0_cop2", Zero32)
      /\ Cardinality(EventsNamed(log, "microVU0_cop2")) = 2

\* the status committed is not the one the instruction started with, and the
\* lanes hold the new one
C22_Witness ==
  /\ Returned(16)
  /\ vu0Regs.VI[REG_STATUS_FLAG] # hist.startStatus
  /\ vu0Regs.micro_statusflags # Vec4(Denormalize(hist.startStatus))
  /\ microVU0.cop2 = 0

----------------------------------------------------------------------------
(* The marker microVU0.cop2 (Spec) *)

\* an envelope routine is past its setupMacroOp and not past its endMacroOp
InEnvelope ==
  /\ fn \in EnvelopeOps
  /\ pc \in {"pass0", "pass1", "end"}

\* C23: microVU0.cop2 is 1 from setupMacroOp to the end of endMacroOp and 0
\* everywhere else, so 0 after the translation of any instruction; no routine
\* but those REC_COP2_mVU0 generates (not the transfers, the branches,
\* CALLMS/CALLMSR, NOP/WAITQ, rec_C2UNK) assigns it.
C23_MarkerBracketsEnvelope ==
  /\ microVU0.cop2 = (IF InEnvelope THEN 1 ELSE 0)
  /\ (fn \notin EnvelopeOps) => ~Called(log, "microVU0_cop2")

\* CALLMS has been translated after a DIV: the marker was set and cleared by
\* the one and left alone by the other
C23_Witness ==
  /\ fn = "recVCALLMS"
  /\ pc = "ret"
  /\ Called(log, "recCall")
  /\ hist.qStore.has
  /\ microVU0.cop2 = 0

----------------------------------------------------------------------------
(* What setupMacroOp and endMacroOp write (Spec) *)

\* setupMacroOp or endMacroOp of an envelope routine is about to run
AtEnvelopeStep ==
  /\ fn \in EnvelopeOps
  /\ pc \in {"entry", "end"}

\* C24: setupMacroOp loads xmmPQ from VI[REG_Q] exactly when the mode has
\* READS_Q (0x01); endMacroOp stores xmmPQ to VI[REG_Q] exactly when it has
\* WRITES_Q (0x02), and stores the scalar status and the status and mac lanes
\* exactly when it has UPDATES_STATUS_MAC (0x10); neither writes any of them
\* otherwise, so with mode 0x00 the two leave Q, the scalar status and both
\* lane copies as they were.
C24_EnvelopeFrame ==
  [][AtEnvelopeStep =>
      LET mode == ModeOf(fn)
          atEnd == pc = "end"
          flags == <<vu0Regs.VI[REG_STATUS_FLAG], vu0Regs.micro_statusflags,
                     vu0Regs.micro_macflags>>
          flagsAfter == <<vu0Regs'.VI[REG_STATUS_FLAG], vu0Regs'.micro_statusflags,
                          vu0Regs'.micro_macflags>>
      IN  /\ Called(log', "xMOVSSZX_xmmPQ") <=> HasMode(mode, 1)
          /\ Called(log', "xMOVSS_Q") <=> (atEnd /\ HasMode(mode, 2))
          /\ Called(log', "xMOV_status") <=> (atEnd /\ HasMode(mode, 16))
          /\ Called(log', "xMOVAPS_micro_statusflags") <=> (atEnd /\ HasMode(mode, 16))
          /\ Called(log', "xMOVAPS_micro_macflags") <=> (atEnd /\ HasMode(mode, 16))
          /\ (x86'.xmmPQ # x86.xmmPQ) => (~atEnd /\ HasMode(mode, 1))
          /\ (vu0Regs'.VI[REG_Q] # vu0Regs.VI[REG_Q]) => (atEnd /\ HasMode(mode, 2))
          /\ (flagsAfter # flags) => (atEnd /\ HasMode(mode, 16))
          /\ (mode = 0) =>
               /\ vu0Regs'.VI[REG_Q] = vu0Regs.VI[REG_Q]
               /\ flagsAfter = flags]_vars

\* ABS (mode 0x00) has been translated after a DIV: xmmPQ holds something else
\* than the Q the DIV stored, and VI[REG_Q] still holds that Q
C24_Witness ==
  /\ fn = "recVABS"
  /\ pc = "ret"
  /\ hist.qStore.has
  /\ vu0Regs.VI[REG_Q] = hist.qStore.val
  /\ x86.xmmPQ # vu0Regs.VI[REG_Q]
  /\ vu0Regs.VI[REG_STATUS_FLAG] = hist.startStatus

----------------------------------------------------------------------------
(* The fixed steps of setupMacroOp and endMacroOp (Spec) *)

\* what setupMacroOp emits under a mode bit
ModeDependentSetup == {"xMOVSSZX_xmmPQ", "mVUallocSFLAGd", "xMOV_gprF0"}

\* C25: for every mode setupMacroOp clears info[0], calls iFlushCall and
\* resets the register allocator, once each and in that order, ahead of
\* everything it emits under a mode bit; endMacroOp calls flushAll once for
\* every mode, after the store of the scalar status and before the
\* re-broadcast.
C25_FixedSteps ==
  /\ (fn \in EnvelopeOps /\ pc # "entry") =>
       \E s \in EventsNamed(log, "setupMacroOp") :
         /\ log[s + 2][1] = "memset_info"
         /\ log[s + 3][1] = "iFlushCall"
         /\ log[s + 4][1] = "regAlloc_reset"
         /\ Calls("memset_info") = 1
         /\ Calls("regAlloc_reset") = 1
         /\ Cardinality({i \in EventsNamed(log, "iFlushCall") : i > s}) = 1
         /\ \A i \in DOMAIN log :
              (i > s /\ log[i][1] \in ModeDependentSetup) => i > s + 4
  /\ (fn \in EnvelopeOps /\ pc = "ret") =>
       \E e \in EventsNamed(log, "endMacroOp"), f \in EventsNamed(log, "regAlloc_flushAll") :
         /\ Calls("regAlloc_flushAll") = 1
         /\ e < f
         /\ \A i \in EventsNamed(log, "xMOV_status") : i < f
         /\ \A i \in EventsNamed(log, "xMOVAPS_micro_statusflags")
                    \cup EventsNamed(log, "xMOVAPS_micro_macflags") : f < i
         /\ \A i \in EventsNamed(log, "mVUallocSFLAGd") : (i > e) => (f < i)

\* ADDq (mode 0x11) has loaded Q and the status snapshot after the three fixed
\* steps, and has flushed between the commit and the re-broadcast
C25_Witness ==
  /\ fn = "recVADDq"
  /\ pc = "ret"
  /\ Called(log, "xMOVSSZX_xmmPQ")
  /\ Called(log, "xMOV_gprF0")
  /\ Called(log, "xMOV_status")
  /\ Called(log, "regAlloc_flushAll")
  /\ Called(log, "xMOVAPS_micro_macflags")

----------------------------------------------------------------------------
(* CTC2 to the read-only control registers (Spec) *)

\* the body of a CTC2 to REG_MAC_FLAG, REG_TPC or REG_VPU_STAT is about to run
AtReadOnlyWrite ==
  /\ fn = "recCTC2"
  /\ pc = "body"
  /\ _Rd_(code) \in {REG_MAC_FLAG, REG_TPC, REG_VPU_STAT}

\* C26: the body of a CTC2 to REG_MAC_FLAG, REG_TPC or REG_VPU_STAT emits
\* nothing: every VI register, micro_statusflags and micro_macflags keep
\* their values, whatever GPR[rt] holds.
C26_ReadOnlyUntouched ==
  [][AtReadOnlyWrite => (vu0Regs' = vu0Regs /\ log' = log)]_vars

\* a CTC2 from GPR[1] to REG_MAC_FLAG has returned: the mac flag an earlier
\* instruction left is still there and is not what GPR[1] holds
C26_Witness ==
  /\ fn = "recCTC2"
  /\ pc = "ret"
  /\ _Rd_(code) = REG_MAC_FLAG
  /\ _Rt_(code) = 1
  /\ vu0Regs.VI[REG_MAC_FLAG] # Zero32
  /\ vu0Regs.VI[REG_MAC_FLAG] # cpuRegs.GPR[1][1]

----------------------------------------------------------------------------
(* The choice between the two synchronizations (SpecTransfer) *)

\* a transfer routine is past its synchronization code
PastSync ==
  /\ fn \in Transfers
  /\ pc \in {"body", "ret"}

\* C27: the interlock bit chooses the synchronization of a transfer. With the
\* bit set COP2_Interlock is emitted, once, and the sync check (the block with
\* the compare) is not; with the bit clear COP2_Interlock is not emitted and
\* the sync check is, once, unless the routine returns early on register 0.
\* Each of the two tests VPU_STAT once, so there is one test at most, and
\* cpuRegs.cycle is updated once at most.
C27_OneSynchronization ==
  PastSync =>
    /\ Calls("COP2_Interlock") = (IF Interlocked(code) THEN 1 ELSE 0)
    /\ Interlocked(code) => ~Called(log, "xCMP")
    /\ Calls("xTEST_VPU_STAT") =
          (IF Interlocked(code) \/ TargetReg(fn, code) # 0 THEN 1 ELSE 0)
    /\ Calls("xMOV_cpuRegs_cycle") <= 1
    /\ Calls("xCMP") <= 1

\* an interlocked CTC2 to a register other than 0 found VU0 busy: it updated
\* the cycle counter in COP2_Interlock and made no compare afterwards
C27_Witness ==
  /\ PastSync
  /\ fn = "recCTC2"
  /\ pc = "ret"
  /\ Interlocked(code)
  /\ TargetReg(fn, code) # 0
  /\ BusyAtTest
  /\ Calls("xMOV_cpuRegs_cycle") = 1

----------------------------------------------------------------------------
(* The synchronization code with VU0 idle (SpecTransfer) *)

\* what either synchronization emits behind its busy test
BehindBusyTest == SyncCalls \cup {"xMOV_cpuRegs_cycle", "xCMP"}

\* C28: when VU0 is not busy as a transfer begins, the code up to the body
\* (COP2_Interlock or the sync check) changes no main-CPU and no VU0 state, so
\* leaves cpuRegs.cycle alone, and the whole routine runs nothing that lies
\* behind the busy test: no cycle update, no compare, no call of
\* ExecuteBlockJIT, _vu0WaitMicro or _vu0FinishMicro.
C28_IdleSyncNoEffect ==
  [][((fn \in Transfers /\ pc = "entry" /\ ~Busy(Cur)) =>
        (/\ cpuRegs' = cpuRegs
         /\ vu0Regs' = vu0Regs
         /\ \A i \in DOMAIN log' : log'[i][1] \notin BehindBusyTest))
       /\ ((fn \in Transfers /\ pc = "body" /\ ~BusyAtTest) =>
             (/\ cpuRegs'.cycle = cpuRegs.cycle
              /\ \A i \in DOMAIN log' : log'[i][1] \notin BehindBusyTest))]_vars

\* an interlocked QMFC2 found VU0 idle and has copied the VF register; the
\* cycle counter is where the run started it
C28_Witness ==
  /\ fn = "recQMFC2"
  /\ pc = "ret"
  /\ Interlocked(code)
  /\ Called(log, "xTEST_VPU_STAT")
  /\ ~BusyAtTest
  /\ Called(log, "read_VF")
  /\ cpuRegs.cycle \in StartCycles

----------------------------------------------------------------------------
(* Transfers to register 0 (SpecTransfer) *)

\* register 0 of each file a transfer can write: the main CPU's, VU0's VF and VI
RegisterZero == <<cpuRegs.GPR[0], vu0Regs.VF[0], vu0Regs.VI[0]>>

\* a transfer whose destination is register 0 has returned
ZeroTargetReturned ==
  /\ fn \in Transfers
  /\ pc = "ret"
  /\ TargetReg(fn, code) = 0

\* what COP2_Interlock emits and calls, in any run
InterlockSequence ==
  {"COP2_Interlock", "iFlushCall", "xTEST_VPU_STAT", "xMOV_cpuRegs_cycle"}
    \cup SyncCalls

\* C29: no transfer writes register 0 of the file it moves to. CFC2 and QMFC2
\* with rt = 0 and CTC2 and QMTC2 with rd = 0 go from their entry straight to
\* their return; with the interlock bit set the log then holds COP2_Interlock
\* with its flush and busy test and nothing outside the interlock sequence,
\* with the bit clear it holds nothing but the dispatch lookup.
C29_RegisterZeroKept ==
  [][(fn \in Transfers => RegisterZero' = RegisterZero)
       /\ (ZeroTargetReturned' =>
             (/\ pc = "entry"
              /\ Interlocked(code) =>
                    (/\ Calls("COP2_Interlock")' = 1
                     /\ Calls("iFlushCall")' = 1
                     /\ Calls("xTEST_VPU_STAT")' = 1
                     /\ \A i \in DOMAIN log' :
                          log'[i][1] \in InterlockSequence \cup TableNames)
              /\ ~Interlocked(code) =>
                    (\A i \in DOMAIN log' : log'[i][1] \in TableNames)))]_vars

\* an interlocked CTC2 to VI register 0 has returned after resolving a busy VU0
C29_Witness ==
  /\ ZeroTargetReturned
  /\ fn = "recCTC2"
  /\ _Rt_(code) = 1
  /\ Interlocked(code)
  /\ Called(log, "_vu0WaitMicro")

----------------------------------------------------------------------------
(* The prologue of the SPECIAL1 level (SpecDispatch) *)

\* the current instruction went through recCOP2_SPEC1: its lookup in
\* recCOP2SPECIAL1t is made
ThroughSpecial1 == Called(log, "recCOP2SPECIAL1t")

\* the log up to the SPECIAL1 lookup is the primary lookup, the flush, the busy
\* test and, exactly when the test found VU0 busy, the call of _vu0FinishMicro
Special1Prologue ==
  \A k \in EventsNamed(log, "recCOP2SPECIAL1t") :
    /\ k \in {4, 5}
    /\ log[1][1] = "recCOP2t"
    /\ log[2][1] = "iFlushCall"
    /\ log[3][1] = "xTEST_VPU_STAT"
    /\ (k = 5) = (log[3][2] = U32(1))
    /\ k = 5 => log[4][1] = "_vu0FinishMicro"

\* C30: every instruction dispatched through the SPECIAL1 level, whatever its
\* SPECIAL1 or SPECIAL2 slot holds, has a flush and a test of the VU0 busy bit
\* before the table call, with a call of _vu0FinishMicro between them and the
\* table call exactly when VU0 was busy; the step that emits them leaves
\* cpuRegs.cycle as it was.
C30_Special1Prologue ==
  [][(ThroughSpecial1' => Special1Prologue')
       /\ (fn = "recCOP2_SPEC1" =>
             (/\ ThroughSpecial1'
              /\ Called(log', "_vu0FinishMicro") = Busy(Cur)
              /\ cpuRegs'.cycle = cpuRegs.cycle))]_vars

\* VCALLMS, reached through SPECIAL1 while VU0 was busy, is about to start
C30_Witness ==
  /\ fn = "recVCALLMS"
  /\ pc = "entry"
  /\ ThroughSpecial1
  /\ Called(log, "_vu0FinishMicro")

----------------------------------------------------------------------------
(* QMTC2 followed by QMFC2 (SpecMove) *)

\* QMFC2 is about to copy the VF register the last QMTC2 wrote, with no writer
\* of that register in between
ReadsMoved ==
  /\ fn = "recQMFC2"
  /\ hist.vfMove.has
  /\ hist.vfMove.rd = _Rd_(code)

\* C31: a QMTC2 that copies GPR[rt] into VF[rd], rd # 0, followed by a QMFC2
\* that copies VF[rd] into GPR[rt2], rt2 # 0, with no writer of VF[rd] in
\* between, leaves in GPR[rt2] all 128 bits of what GPR[rt] held at the QMTC2.
C31_MoveRoundTrip ==
  [][(ReadsMoved /\ pc = "body") =>
       (cpuRegs'.GPR[_Rt_(code)] = hist.vfMove.val)]_vars

\* GPR[2] went through VF[1] into GPR[1]
C31_Witness ==
  /\ ReadsMoved
  /\ pc = "ret"
  /\ _Rt_(code) = 1
  /\ _Rd_(code) = 1
  /\ hist.vfMove.val = MoveSource
  /\ cpuRegs.GPR[1] = MoveSource
  /\ cpuRegs.GPR[2] = MoveSource

----------------------------------------------------------------------------
(* The value CFC2 writes (SpecRead) *)

\* bit 31 of a word repeated over 32 bits
SignFill(w) == IF w[1] >= 32768 THEN <<65535, 65535>> ELSE <<0, 0>>

\* C32: CFC2 with rt # 0 writes VI[rd] to bits 0..31 of GPR[rt], to bits
\* 32..63 the sign extension of that value when rd >= 16 and zero when
\* rd < 16, and leaves bits 64..127 of GPR[rt] as they were.
C32_ReadWidth ==
  [][(fn = "recCFC2" /\ pc = "body") =>
       (/\ cpuRegs'.GPR[_Rt_(code)][1] = vu0Regs'.VI[_Rd_(code)]
        /\ cpuRegs'.GPR[_Rt_(code)][2] =
              (IF _Rd_(code) >= 16 THEN SignFill(vu0Regs'.VI[_Rd_(code)]) ELSE <<0, 0>>)
        /\ cpuRegs'.GPR[_Rt_(code)][3] = cpuRegs.GPR[_Rt_(code)][3]
        /\ cpuRegs'.GPR[_Rt_(code)][4] = cpuRegs.GPR[_Rt_(code)][4])]_vars

\* CFC2 of the R register, which held a negative value, has written GPR[2]:
\* the second word is all ones, the upper half is what GPR[2] held before
C32_Witness ==
  /\ fn = "recCFC2"
  /\ pc = "ret"
  /\ _Rt_(code) = 2
  /\ _Rd_(code) = REG_R
  /\ cpuRegs.GPR[2][1] = <<\h8000, 0>>
  /\ cpuRegs.GPR[2][2] = <<\hFFFF, \hFFFF>>
  /\ cpuRegs.GPR[2][3] = MoveSource[3]
  /\ cpuRegs.GPR[2][4] = MoveSource[4]

----------------------------------------------------------------------------
(* CTC2 to FBRST and to R (SpecWrite) *)

\* the body of a CTC2 to the given control register is about to run
AtWriteOf(rd) ==
  /\ fn = "recCTC2"
  /\ pc = "body"
  /\ _Rd_(code) = rd

\* the low word of the source register of the current instruction
WriteSource == cpuRegs.GPR[_Rt_(code)][1]

\* bit b (0..15) of the low half of a word
LowBit(w, b) == (w[2] \div (2 ^ b)) % 2 = 1

\* C33: a CTC2 to REG_FBRST stores the source's bits within 0x0C0C and no
\* other bit, so never bit 1 or bit 9; vu0ResetRegs is called at most once, and
\* exactly when bit 1 of the source is set, vu1ResetRegs likewise for bit 9,
\* and when both are called vu0ResetRegs comes first; with rt = 0 the register
\* becomes 0 and neither is called.
C33_ResetRequests ==
  [][AtWriteOf(REG_FBRST) =>
       (/\ vu0Regs'.VI[REG_FBRST][1] = 0
        /\ \A b \in 0..15 :
             LowBit(vu0Regs'.VI[REG_FBRST], b) =
               (b \in {2, 3, 10, 11} /\ LowBit(WriteSource, b))
        /\ Cardinality(EventsNamed(log', "vu0ResetRegs")) =
              (IF LowBit(WriteSource, 1) THEN 1 ELSE 0)
        /\ Cardinality(EventsNamed(log', "vu1ResetRegs")) =
              (IF LowBit(WriteSource, 9) THEN 1 ELSE 0)
        /\ \A i \in EventsNamed(log', "vu0ResetRegs") :
             \A j \in EventsNamed(log', "vu1ResetRegs") : i < j
        /\ (_Rt_(code) = 0 =>
              (/\ vu0Regs'.VI[REG_FBRST] = Zero32
               /\ ~Called(log', "vu0ResetRegs")
               /\ ~Called(log', "vu1ResetRegs"))))]_vars

\* a CTC2 of a source with both request bits and all of 0x0C0C set has called
\* both reset functions and stored 0x0C0C
C33_Witness ==
  /\ fn = "recCTC2"
  /\ pc = "ret"
  /\ _Rd_(code) = REG_FBRST
  /\ WriteSource = <<\h1234, \h0E0E>>
  /\ Called(log, "vu0ResetRegs")
  /\ Called(log, "vu1ResetRegs")
  /\ vu0Regs.VI[REG_FBRST] = <<0, \h0C0C>>

\* C34: a CTC2 to the R register stores (GPR[rt] & 0x7FFFFF) | 0x3F800000: the
\* stored value lies in 0x3F800000..0x3FFFFFFF and its low 23 bits are the low
\* 23 bits of the source, whatever the source is.
C34_RRange ==
  [][AtWriteOf(REG_R) =>
       (/\ vu0Regs'.VI[REG_R][1] \in 16256..16383
        /\ vu0Regs'.VI[REG_R][1] % 128 = WriteSource[1] % 128
        /\ vu0Regs'.VI[REG_R][2] = WriteSource[2])]_vars

\* a CTC2 of all ones has stored 0x3FFFFFFF in R
C34_Witness ==
  /\ fn = "recCTC2"
  /\ pc = "ret"
  /\ _Rd_(code) = REG_R
  /\ WriteSource = <<\hFFFF, \hFFFF>>
  /\ vu0Regs.VI[REG_R] = <<\h3FFF, \hFFFF>>

----------------------------------------------------------------------------
(* The sign of the compared difference (SpecTransfer) *)

\* a transfer whose sync check subtracts both vu0Regs.cycle and
\* vu0Regs.nextBlockCycles, without the interlock bit
ChecksBacklog ==
  /\ fn \in Transfers
  /\ SubtractsNextBlock(fn)
  /\ ~Interlocked(code)

\* the sync check compared a value with bit 31 set
ComparedNegative == \E i \in Compared(log) : log[i][2][1] >= 32768

----------------------------------------------------------------------------
(* Teardown and detachment of a pxThread (SpecThread) *)

\* the destructor is past its test of m_running and its wait
PastWait == pxThread.owner \in {"Sleep", "dtor_Detach", "gone"}

\* the worker has accesses to the object ahead of it
WorkerInObject == pxThread.worker \notin {"none", "exited"}

\* C36: the destructor is never past its wait on m_mtx_InThread while the
\* worker still has an access to the object ahead of it, the last of which is
\* its write of m_running = false.
C36_NoTeardownInUse == PastWait => ~WorkerInObject

\* C37: among the Detach calls made between two starts of the thread, from any
\* of the calling threads, at most one returns true and at most one calls
\* pthread_detach.
C37_DetachOnce ==
  /\ pxThread.returnedTrue <= 1
  /\ pxThread.pthread_detach <= 1

\* in the epoch of the second start, one Detach has returned true and another
\* false
C37_Witness ==
  /\ pxThread.epoch = 2
  /\ pxThread.returnedTrue = 1
  /\ pxThread.returnedFalse >= 1
====
